---- MODULE Spec2Model ----
(***************************************************************************)
(* Design-token transformation pipeline of design-system-scaffold:         *)
(* the universal token parser (parseTokenFiles / transformAndOutput), the   *)
(* legacy W3C parser (resolveReferences / classifyTokens) and the Figma     *)
(* colour transformer.  Strings are TLA+ strings; the functions that look   *)
(* inside a string work on its sequence of characters.                      *)
(***************************************************************************)
EXTENDS Integers, Sequences, FiniteSets, TLC

VARIABLES
  parser,           \* which script runs: "universal", "legacy" or "figma"
  pc,               \* position inside the running script
  config,           \* tokens.config.js as loaded by the script
  files,            \* the input directory: a sequence of parsed documents
  artifacts,        \* the output directory: the files written
  fileIdx,          \* parseTokenFiles: number of files read so far
  allTokens,        \* parseTokenFiles: allTokens (StandardToken list)
  warnings,         \* console.warn lines of the universal resolver
  runs,             \* how many times W3CParser.resolveReferences ran on allTokens
  dedupedTokens,    \* parseTokenFiles: Array.from(tokenMap.values())
  duplicatesRemoved,\* parseTokenFiles: duplicatesRemoved
  legacyTokens,     \* legacy parser: the flat token object, in key order
  legacyWarnings,   \* console.warn lines of the legacy resolver
  legacyRuns,       \* how many times the legacy resolveReferences ran
  tokenName,        \* classifyToken: its argument
  classification,   \* classifyToken: its return value
  cleanedName,      \* cleanTokenName: its return value
  reorderedName,    \* reorderSemanticToken: its return value
  colorsData,       \* Figma transformer: the parsed Colors.json
  primitives,       \* transformColors: the primitive colour map it returns
  mappings,         \* transformColors: hex value -> primitive name
  semanticColors,   \* main: the groups returned by transformSemanticColors
  suggestions,      \* generateSemanticSuggestions: the candidates it lists
  document,         \* parseTokenFiles: data, the parsed JSON of the file
  filename,         \* parseTokenFiles: file
  detection,        \* parseTokenFiles: the result of detectTokenFormat
  parsedTokens      \* parseTokenFiles: tokens, what the chosen parser extracted

scriptVars == <<parser, pc, config, files, artifacts>>
universalVars == <<fileIdx, allTokens, warnings, runs, dedupedTokens, duplicatesRemoved>>
legacyVars == <<legacyTokens, legacyWarnings, legacyRuns>>
classifyVars == <<tokenName, classification, cleanedName, reorderedName>>
figmaVars == <<colorsData, primitives, mappings, semanticColors, suggestions>>
detectVars == <<document, filename, detection, parsedTokens>>

vars == <<scriptVars, universalVars, legacyVars, classifyVars, figmaVars, detectVars>>

-----------------------------------------------------------------------------
(* Bounds of the model *)

MaxTokens == 3
MaxChain == 12
MaxColors == 4
MaxRuns == 2

-----------------------------------------------------------------------------
(* Strings *)

Null == "<null>"

Chars(s) == [i \in 1..Len(s) |-> SubSeq(s, i, i)]

\* the string of a sequence of characters, put together by halves
RECURSIVE Str(_)
Str(cs) ==
  CASE Len(cs) = 0 -> ""
    [] Len(cs) = 1 -> cs[1]
    [] Len(cs) = 2 -> cs[1] \o cs[2]
    [] Len(cs) = 3 -> cs[1] \o cs[2] \o cs[3]
    [] Len(cs) = 4 -> cs[1] \o cs[2] \o cs[3] \o cs[4]
    [] OTHER -> Str(SubSeq(cs, 1, Len(cs) \div 2))
                  \o Str(SubSeq(cs, (Len(cs) \div 2) + 1, Len(cs)))

\* the concatenation of a sequence of sequences
RECURSIVE Flatten(_)
Flatten(ss) ==
  IF ss = <<>> THEN <<>>
  ELSE IF Len(ss) = 1 THEN ss[1]
  ELSE Flatten(SubSeq(ss, 1, Len(ss) \div 2)) \o Flatten(SubSeq(ss, (Len(ss) \div 2) + 1, Len(ss)))

UpperChars == Chars("ABCDEFGHIJKLMNOPQRSTUVWXYZ")
LowerChars == Chars("abcdefghijklmnopqrstuvwxyz")
DigitChars == Chars("0123456789")

InSeq(c, cs) == \E i \in 1..Len(cs) : cs[i] = c

UpperSet == {UpperChars[i] : i \in 1..26}
LowerSet == {LowerChars[i] : i \in 1..26}
DigitSet == {DigitChars[i] : i \in 1..10}

IsUpper(c) == c \in UpperSet
IsLower(c) == c \in LowerSet
IsDigit(c) == c \in DigitSet

UpperToLower == [c \in UpperSet |-> LowerChars[CHOOSE i \in 1..26 : UpperChars[i] = c]]
LowerToUpper == [c \in LowerSet |-> UpperChars[CHOOSE i \in 1..26 : LowerChars[i] = c]]

LowerChar(c) == IF IsUpper(c) THEN UpperToLower[c] ELSE c

\* String.prototype.toLowerCase
ToLowerCase(s) == Str([i \in 1..Len(s) |-> LowerChar(SubSeq(s, i, i))])

\* a JavaScript value used as a condition: null, undefined and "" are falsy
Falsy(v) == v = Null \/ v = ""

SetMax(S) == CHOOSE m \in S : \A x \in S : x <= m

\* /^\{[^}]+\}$/.test(value)
IsReference(value) ==
  LET cs == Chars(value) IN
  /\ Len(cs) >= 3
  /\ cs[1] = "{"
  /\ cs[Len(cs)] = "}"
  /\ \A i \in 2..(Len(cs) - 1) : cs[i] # "}"

\* value.slice(1, -1)
Slice1(value) == IF Len(value) >= 2 THEN SubSeq(value, 2, Len(value) - 1) ELSE ""

\* .replace(/<from>/g, to) for a single character
ReplaceChar(cs, from, to) == [i \in 1..Len(cs) |-> IF cs[i] = from THEN to ELSE cs[i]]

\* .replace(/\([^)]*\)/g, ''): an opening parenthesis with everything up to the
\* next closing one is dropped; an unclosed one stays
RECURSIVE RemoveParens(_)
RemoveParens(cs) ==
  IF cs = <<>> THEN <<>>
  ELSE IF Head(cs) = "(" /\ \E j \in 2..Len(cs) : cs[j] = ")"
       THEN LET j == CHOOSE k \in 2..Len(cs) :
                       cs[k] = ")" /\ \A m \in 2..(k - 1) : cs[m] # ")"
            IN RemoveParens(SubSeq(cs, j + 1, Len(cs)))
       ELSE <<Head(cs)>> \o RemoveParens(Tail(cs))

IsSpace(c) == c = " "

\* .replace(/\s+/g, '-')
RECURSIVE SpacesToDash(_)
SpacesToDash(cs) ==
  IF cs = <<>> THEN <<>>
  ELSE IF IsSpace(Head(cs))
       THEN IF Len(cs) >= 2 /\ IsSpace(cs[2]) THEN SpacesToDash(Tail(cs))
            ELSE <<"-">> \o SpacesToDash(Tail(cs))
       ELSE <<Head(cs)>> \o SpacesToDash(Tail(cs))

\* .replace(/[^a-z0-9-]/gi, '')
KeepIdentChars(cs) ==
  SelectSeq(cs, LAMBDA c : IsLower(c) \/ IsUpper(c) \/ IsDigit(c) \/ c = "-")

\* .replace(/-+/g, '-')
RECURSIVE CollapseDashes(_)
CollapseDashes(cs) ==
  IF cs = <<>> THEN <<>>
  ELSE IF Head(cs) = "-" /\ Len(cs) >= 2 /\ cs[2] = "-" THEN CollapseDashes(Tail(cs))
       ELSE <<Head(cs)>> \o CollapseDashes(Tail(cs))

\* .replace(/^-|-$/g, '')
TrimDashes(cs) ==
  LET a == IF cs # <<>> /\ Head(cs) = "-" THEN Tail(cs) ELSE cs
  IN IF a # <<>> /\ a[Len(a)] = "-" THEN SubSeq(a, 1, Len(a) - 1) ELSE a

\* the reference target recorded by W3CParser.flattenTokens for a brace-wrapped value
ReferenceTarget(value) ==
  ToLowerCase(Str(TrimDashes(CollapseDashes(KeepIdentChars(SpacesToDash(
    RemoveParens(ReplaceChar(ReplaceChar(Chars(Slice1(value)), ".", "-"), "_", "-"))))))))

\* String.prototype.includes
Contains(s, sub) ==
  \E i \in 1..(Len(s) - Len(sub) + 1) : SubSeq(s, i, i + Len(sub) - 1) = sub

\* String.prototype.startsWith
StartsWith(s, sub) == Len(sub) <= Len(s) /\ SubSeq(s, 1, Len(sub)) = sub

UpperChar(c) == IF IsLower(c) THEN LowerToUpper[c] ELSE c

\* str.charAt(0).toUpperCase() + str.slice(1)
capitalize(str) ==
  IF str = "" THEN "" ELSE UpperChar(SubSeq(str, 1, 1)) \o SubSeq(str, 2, Len(str))

\* Array.prototype.join
RECURSIVE Join(_, _)
Join(parts, sep) ==
  IF parts = <<>> THEN ""
  ELSE IF Len(parts) = 1 THEN parts[1]
  ELSE parts[1] \o sep \o Join(Tail(parts), sep)

\* String.prototype.split for a one-character separator, on a character sequence
RECURSIVE Split(_, _)
Split(cs, sep) ==
  IF \A i \in 1..Len(cs) : cs[i] # sep THEN <<Str(cs)>>
  ELSE LET j == CHOOSE k \in 1..Len(cs) : cs[k] = sep /\ \A m \in 1..(k - 1) : cs[m] # sep
       IN <<Str(SubSeq(cs, 1, j - 1))>> \o Split(SubSeq(cs, j + 1, Len(cs)), sep)

\* .replace(/([a-z])([A-Z])/g, '$1-$2')
\* a match ends on an upper-case letter, which starts no further match, so the
\* matches are all the positions of a lower-case letter before an upper-case one
CamelToKebab(cs) ==
  Flatten([i \in 1..Len(cs) |->
             IF i < Len(cs) /\ IsLower(cs[i]) /\ IsUpper(cs[i + 1])
             THEN <<cs[i], "-">> ELSE <<cs[i]>>])

\* the contents matched by /\(([^)]+)\)/g, in order
RECURSIVE ParenContents(_)
ParenContents(cs) ==
  IF cs = <<>> THEN <<>>
  ELSE IF Head(cs) = "(" /\ \E j \in 3..Len(cs) : cs[j] = ")" /\ cs[2] # ")"
       THEN LET j == CHOOSE k \in 3..Len(cs) :
                       cs[k] = ")" /\ \A m \in 2..(k - 1) : cs[m] # ")"
            IN <<Str(SubSeq(cs, 2, j - 1))>> \o ParenContents(SubSeq(cs, j + 1, Len(cs)))
       ELSE ParenContents(Tail(cs))

Range(f) == {f[i] : i \in DOMAIN f}

-----------------------------------------------------------------------------
(* Tokens *)

\* new StandardToken(name, value, type, metadata), then the reference check of
\* W3CParser.flattenTokens; leaf is one value-carrying node of a document
StandardToken(leaf) ==
  [name |-> leaf.name, value |-> leaf.value, type |-> leaf.type,
   rawValue |-> leaf.value,
   references |-> IF IsReference(leaf.value) THEN ReferenceTarget(leaf.value) ELSE Null,
   isLegacy |-> leaf.isLegacy]

\* new Map(tokens.map(t => [t.name, t])).get(name): the index of the last token
\* of that name, 0 when the map has no such key
MapIndex(toks, name) ==
  LET idx == {i \in 1..Len(toks) : toks[i].name = name}
  IN IF idx = {} THEN 0 ELSE SetMax(idx)

-----------------------------------------------------------------------------
(* W3CParser.resolveReferences *)

maxDepth == 10

\* a resolver that takes the value of the first token referred to, whether or
\* not that token holds a reference itself
FollowChainOneHop(toks, currentRef, depth) ==
  LET i == IF Falsy(currentRef) THEN 0 ELSE MapIndex(toks, currentRef) IN
  IF i = 0
  THEN [depth |-> depth, assigned |-> FALSE, value |-> "",
        missing |-> IF Falsy(currentRef) THEN Null ELSE currentRef]
  ELSE [depth |-> depth, assigned |-> TRUE, value |-> toks[i].value, missing |-> Null]

\* a while loop that follows one reference more before it gives up
RECURSIVE FollowChainDeeper(_, _, _)
FollowChainDeeper(toks, currentRef, depth) ==
  IF Falsy(currentRef) \/ depth > maxDepth
  THEN [depth |-> depth, assigned |-> FALSE, value |-> "", missing |-> Null]
  ELSE LET i == MapIndex(toks, currentRef) IN
       IF i = 0
       THEN [depth |-> depth, assigned |-> FALSE, value |-> "", missing |-> currentRef]
       ELSE IF Falsy(toks[i].references)
            THEN [depth |-> depth, assigned |-> TRUE, value |-> toks[i].value,
                  missing |-> Null]
            ELSE FollowChainDeeper(toks, toks[i].references, depth + 1)

\* the while loop over one token's chain
RECURSIVE FollowChain(_, _, _)
FollowChain(toks, currentRef, depth) ==
  IF Falsy(currentRef) \/ depth >= maxDepth
  THEN [depth |-> depth, assigned |-> FALSE, value |-> "", missing |-> Null]
  ELSE LET i == MapIndex(toks, currentRef) IN
       IF i = 0
       THEN [depth |-> depth, assigned |-> FALSE, value |-> "", missing |-> currentRef]
       ELSE IF Falsy(toks[i].references)
            THEN [depth |-> depth, assigned |-> TRUE, value |-> toks[i].value,
                  missing |-> Null]
            ELSE FollowChain(toks, toks[i].references, depth + 1)

\* a console.warn line; index is the position of the token being resolved
UnresolvedWarning(ref, name, i) ==
  [kind |-> "unresolved", token |-> name, ref |-> ref, index |-> i]
CircularWarning(name, i) ==
  [kind |-> "circular", token |-> name, ref |-> Null, index |-> i]

\* a resolver that stays silent when the depth bound is reached
ResolveTokenSilentCycle(st, i) ==
  LET token == st.toks[i] IN
  IF Falsy(token.references) THEN st
  ELSE LET r == FollowChain(st.toks, token.references, 0)
           w1 == IF r.missing # Null
                 THEN <<UnresolvedWarning(r.missing, token.name, i)>> ELSE <<>>
       IN [toks  |-> IF r.assigned
                     THEN [st.toks EXCEPT ![i].value = r.value] ELSE st.toks,
           warns |-> st.warns \o w1]

\* a resolver that reports a missing target as a circular reference
ResolveTokenMissingAsCycle(st, i) ==
  LET token == st.toks[i] IN
  IF Falsy(token.references) THEN st
  ELSE LET r == FollowChain(st.toks, token.references, 0)
           w == IF r.missing # Null \/ r.depth >= maxDepth
                THEN <<CircularWarning(token.name, i)>> ELSE <<>>
       IN [toks  |-> IF r.assigned
                     THEN [st.toks EXCEPT ![i].value = r.value] ELSE st.toks,
           warns |-> st.warns \o w]

\* the body of the for loop for the token at index i; st = [toks, warns]
ResolveToken(st, i) ==
  LET token == st.toks[i] IN
  IF Falsy(token.references) THEN st
  ELSE LET r == FollowChain(st.toks, token.references, 0)
           w1 == IF r.missing # Null
                 THEN <<UnresolvedWarning(r.missing, token.name, i)>> ELSE <<>>
           w2 == IF r.depth >= maxDepth THEN <<CircularWarning(token.name, i)>> ELSE <<>>
       IN [toks  |-> IF r.assigned
                     THEN [st.toks EXCEPT ![i].value = r.value] ELSE st.toks,
           warns |-> st.warns \o w1 \o w2]

RECURSIVE ResolveFrom(_, _)
ResolveFrom(st, i) ==
  IF i > Len(st.toks) THEN st ELSE ResolveFrom(ResolveToken(st, i), i + 1)

ResolveReferences(toks) == ResolveFrom([toks |-> toks, warns |-> <<>>], 1)

-----------------------------------------------------------------------------
(* Legacy resolveReferences(tokens, maxDepth = 10) *)

legacyMaxDepth == 10

\* resolved[referenceName]: the index of the key, 0 when the object has none
KeyIndex(toks, name) ==
  LET idx == {i \in 1..Len(toks) : toks[i].name = name}
  IN IF idx = {} THEN 0 ELSE CHOOSE i \in idx : TRUE

LegacyNotFound(ref, name, i) ==
  [kind |-> "notfound", token |-> name, ref |-> ref, index |-> i]

\* the body of the inner for loop; st = [toks, warns, hasUnresolved]
LegacyResolveToken(st, i) ==
  LET value == st.toks[i].value IN
  IF ~IsReference(value) THEN st
  ELSE LET referenceName == Slice1(value)
           j == KeyIndex(st.toks, referenceName)
       IN IF j # 0
          THEN [st EXCEPT !.toks[i].value = st.toks[j].value,
                          !.toks[i].references = referenceName,
                          !.hasUnresolved = TRUE]
          ELSE [st EXCEPT !.warns = @ \o <<LegacyNotFound(referenceName, st.toks[i].name, i)>>]

\* the inner for loop over the tokens lo..hi in key order (the range is halved
\* so that long token lists do not nest the evaluation deeply)
RECURSIVE LegacyPassRange(_, _, _)
LegacyPassRange(st, lo, hi) ==
  IF lo > hi THEN st
  ELSE IF lo = hi THEN LegacyResolveToken(st, lo)
  ELSE LET mid == (lo + hi) \div 2
           left == LegacyPassRange(st, lo, mid)
       IN \* the test makes the evaluator finish the left half before the right one
          IF left.hasUnresolved \in BOOLEAN
          THEN LegacyPassRange(left, mid + 1, hi) ELSE left

\* the outer loop: passes until one changes nothing or maxDepth passes were made
RECURSIVE LegacyPasses(_, _)
LegacyPasses(st, depth) ==
  IF depth >= legacyMaxDepth THEN st
  ELSE LET p == LegacyPassRange([st EXCEPT !.hasUnresolved = FALSE], 1, Len(st.toks))
       IN IF ~p.hasUnresolved THEN p ELSE LegacyPasses(p, depth + 1)

LegacyResolveReferences(toks) ==
  LegacyPasses([toks |-> toks, warns |-> <<>>, hasUnresolved |-> FALSE], 0)

\* legacy flattenTokens: result[tokenName] = {...}; a repeated key keeps its
\* first position and takes the later definition
RECURSIVE LegacyFlatten(_, _)
LegacyFlatten(leaves, result) ==
  IF leaves = <<>> THEN result
  ELSE LET l == Head(leaves)
           t == [name |-> l.name, value |-> l.value, type |-> l.type, references |-> Null]
           j == KeyIndex(result, l.name)
       IN LegacyFlatten(Tail(leaves),
                        IF j = 0 THEN Append(result, t) ELSE [result EXCEPT ![j] = t])

-----------------------------------------------------------------------------
(* Inputs of the resolver runs *)

Leaf(n, v, t, l) == [name |-> n, value |-> v, type |-> t, isLegacy |-> l]

Ref(n) == "{" \o n \o "}"

ResolverNames == {"a", "b", "c"}
\* "z" names no token; "{.}" is brace-wrapped and names nothing at all
ResolverValues == {Ref("a"), Ref("b"), Ref("c"), Ref("z"), Ref("."), "#111111"}

ResolverPool == {Leaf(n, v, "color", FALSE) : n \in ResolverNames, v \in ResolverValues}

SeqsUpTo(S, n) == UNION {[1..k -> S] : k \in 0..n}

ChainNames == Chars("abcdefghijklmnopqrstuvwxyz")

\* a chain of k references, token i referring to token i+1, ending in a literal
ChainAsc(k) ==
  [i \in 1..(k + 1) |->
     IF i <= k THEN Leaf(ChainNames[i], Ref(ChainNames[i + 1]), "color", FALSE)
     ELSE Leaf(ChainNames[i], "#222222", "color", FALSE)]

\* a chain of k references whose last one names no token, followed by a
\* reference that can be resolved
ChainMissing(k) ==
  [i \in 1..k |-> Leaf(ChainNames[i], Ref(ChainNames[i + 1]), "color", FALSE)]
    \o <<Leaf("y", Ref("x"), "color", FALSE), Leaf("x", "#333333", "color", FALSE)>>

Reverse(s) == [i \in 1..Len(s) |-> s[Len(s) + 1 - i]]

ResolverInputs ==
  SeqsUpTo(ResolverPool, MaxTokens)
    \cup {ChainAsc(k) : k \in 1..MaxChain}
    \cup {Reverse(ChainAsc(k)) : k \in 1..MaxChain}
    \cup {ChainMissing(k) : k \in 1..MaxChain}

Tokens(leaves) == [i \in 1..Len(leaves) |-> StandardToken(leaves[i])]

\* tokens.config.js: the prefixes of the custom properties
Config(primitive, semantic) ==
  [cssPrefix |-> [primitive |-> primitive, semantic |-> semantic],
   outputDir |-> "src/primitive-tokens", semanticDir |-> "src/semantic-tokens",
   transformations |-> [reorderSemanticTokens |-> FALSE, categoryKeywords |-> <<>>]]

\* the state of the scripts that are not running
UniversalIdle ==
  /\ fileIdx = 1
  /\ allTokens = <<>>
  /\ warnings = <<>>
  /\ runs = 0
  /\ dedupedTokens = <<>>
  /\ duplicatesRemoved = 0

LegacyIdle ==
  /\ legacyTokens = <<>>
  /\ legacyWarnings = <<>>
  /\ legacyRuns = 0

ClassifyIdle ==
  /\ tokenName = Null
  /\ classification = Null
  /\ cleanedName = Null
  /\ reorderedName = Null

NoSuggestions == [high |-> <<>>, medium |-> <<>>, low |-> <<>>]

FigmaIdle ==
  /\ colorsData = <<>>
  /\ primitives = <<>>
  /\ mappings = <<>>
  /\ semanticColors = <<>>
  /\ suggestions = NoSuggestions

DetectIdle ==
  /\ document = Null
  /\ filename = Null
  /\ detection = [format |-> Null, category |-> Null]
  /\ parsedTokens = <<>>

\* W3CParser: the tokens of one document were flattened, the resolver runs next
InitResolve ==
  /\ parser = "universal"
  /\ pc = "resolve"
  /\ config = Config("primitive", "")
  /\ artifacts = {}
  /\ \E leaves \in ResolverInputs :
       /\ files = <<leaves>>
       /\ allTokens = Tokens(leaves)
  /\ fileIdx = 2
  /\ warnings = <<>>
  /\ runs = 0
  /\ dedupedTokens = <<>>
  /\ duplicatesRemoved = 0
  /\ LegacyIdle
  /\ ClassifyIdle
  /\ FigmaIdle
  /\ DetectIdle

\* one call of new W3CParser().resolveReferences(allTokens)
RunResolver ==
  /\ parser = "universal"
  /\ pc = "resolve"
  /\ runs < MaxRuns
  /\ LET r == ResolveReferences(allTokens) IN
       /\ allTokens' = r.toks
       /\ warnings' = r.warns
  /\ runs' = runs + 1
  /\ UNCHANGED <<scriptVars, fileIdx, dedupedTokens, duplicatesRemoved, legacyVars,
                 classifyVars, figmaVars, detectVars>>

NextResolve == RunResolver

SpecResolve == InitResolve /\ [][NextResolve]_vars

\* decimal digits of a natural number
RECURSIVE NatStr(_)
NatStr(n) ==
  IF n < 10 THEN DigitChars[n + 1]
  ELSE NatStr(n \div 10) \o DigitChars[(n % 10) + 1]

\* a chain as long as the passes of the legacy resolver can shorten it: 2^maxDepth
\* references n1 -> n2 -> ... in key order, ending in a literal
LongChain ==
  LET k == 2 ^ legacyMaxDepth IN
  [i \in 1..(k + 1) |->
     [name |-> "n" \o NatStr(i),
      value |-> IF i <= k THEN Ref("n" \o NatStr(i + 1)) ELSE "#222222",
      type |-> "color", references |-> Null]]

\* legacy parser: the tokens of the documents were flattened, the resolver runs next
InitLegacyResolve ==
  /\ parser = "legacy"
  /\ pc = "resolve"
  /\ config = Config("primitive", "")
  /\ artifacts = {}
  /\ \/ \E leaves \in ResolverInputs :
          /\ files = <<leaves>>
          /\ legacyTokens = LegacyFlatten(leaves, <<>>)
     \/ /\ files = <<>>
        /\ legacyTokens = LongChain
  /\ legacyWarnings = <<>>
  /\ legacyRuns = 0
  /\ UniversalIdle
  /\ ClassifyIdle
  /\ FigmaIdle
  /\ DetectIdle

\* one call of the legacy resolveReferences(allFlatTokens)
RunLegacyResolver ==
  /\ parser = "legacy"
  /\ pc = "resolve"
  /\ legacyRuns < MaxRuns
  /\ LET r == LegacyResolveReferences(legacyTokens) IN
       /\ legacyTokens' = r.toks
       /\ legacyWarnings' = r.warns
  /\ legacyRuns' = legacyRuns + 1
  /\ UNCHANGED <<scriptVars, universalVars, classifyVars, figmaVars, detectVars>>

NextLegacyResolve == RunLegacyResolver

SpecLegacyResolve == InitLegacyResolve /\ [][NextLegacyResolve]_vars

-----------------------------------------------------------------------------
(* Documents: the value-carrying nodes of a token file, in traversal order *)

Node(path, value, type) == [path |-> path, value |-> value, type |-> type]

\* value.$type || 'unknown'
TypeOrUnknown(type) == IF Falsy(type) THEN "unknown" ELSE type

\* W3CParser.flattenTokens: the token name made of the path
TokenName(path) ==
  ToLowerCase(Str(TrimDashes(CollapseDashes(KeepIdentChars(SpacesToDash(
    ReplaceChar(RemoveParens(Chars(Join(path, "-"))), "_", "-")))))))

\* W3CParser.flattenTokens: a parenthesised note of the path marks the token as legacy
IsLegacyPath(path) ==
  LET notes == ParenContents(Chars(Join(path, "-"))) IN
  \E i \in 1..Len(notes) :
    LET content == ToLowerCase(notes[i]) IN
    Contains(content, "legacy") \/ Contains(content, "deprecated") \/ Contains(content, "old")

\* W3CParser.flattenTokens on the nodes of one document
W3CFlattenTokens(nodes) ==
  [i \in 1..Len(nodes) |->
     StandardToken(Leaf(TokenName(nodes[i].path), nodes[i].value,
                        TypeOrUnknown(nodes[i].type), IsLegacyPath(nodes[i].path)))]

\* legacy flattenTokens on the nodes of one document: the key is the dotted path
LegacyLeaves(nodes) ==
  [i \in 1..Len(nodes) |->
     Leaf(Join(nodes[i].path, "."), nodes[i].value, TypeOrUnknown(nodes[i].type), FALSE)]

-----------------------------------------------------------------------------
(* parseTokenFiles: deduplication *)

\* a deduplication that keeps the token met first
DedupStepKeepFirst(st, token) ==
  LET j == KeyIndex(st.map, token.name) IN
  IF j # 0 THEN [map |-> st.map, removed |-> st.removed + 1]
  ELSE [map |-> Append(st.map, token), removed |-> st.removed]

\* tokenMap.set(token.name, token), counting the names already present;
\* st = [map, removed], the map in insertion order
DedupStep(st, token) ==
  LET j == KeyIndex(st.map, token.name) IN
  IF j # 0 THEN [map |-> [st.map EXCEPT ![j] = token], removed |-> st.removed + 1]
  ELSE [map |-> Append(st.map, token), removed |-> st.removed]

RECURSIVE DedupFrom(_, _, _)
DedupFrom(st, toks, i) ==
  IF i > Len(toks) THEN st ELSE DedupFrom(DedupStep(st, toks[i]), toks, i + 1)

DeduplicateTokens(toks) == DedupFrom([map |-> <<>>, removed |-> 0], toks, 1)

-----------------------------------------------------------------------------
(* Universal parser: classification and output *)

primitivePrefixes ==
  <<"base-", "primitive-", "scale-", "color-", "grey-", "gray-", "red-", "blue-",
    "green-", "yellow-", "orange-", "purple-", "pink-", "spacing-", "radius-",
    "font-size-">>

isPrimitivePattern(name) ==
  LET lower == ToLowerCase(name) IN
  \E i \in 1..Len(primitivePrefixes) : Contains(lower, primitivePrefixes[i])

semanticPrefixes ==
  <<"semantic-", "system-", "component-", "primary-", "secondary-", "accent-",
    "surface-", "background-", "text-", "content-", "border-", "stroke-">>

isSemanticPattern(name) ==
  LET lower == ToLowerCase(name) IN
  \E i \in 1..Len(semanticPrefixes) : Contains(lower, semanticPrefixes[i])

\* universal classifyTokens: the branch taken for one token
IsSemanticToken(tokens, token) ==
  IF ~Falsy(token.references) THEN TRUE
  ELSE IF isPrimitivePattern(token.name) THEN FALSE
  ELSE IF isSemanticPattern(token.name) THEN TRUE
  ELSE FALSE

classifyTokens(tokens) ==
  [primitives |-> SelectSeq(tokens, LAMBDA t : ~IsSemanticToken(tokens, t)),
   semantics  |-> SelectSeq(tokens, LAMBDA t : IsSemanticToken(tokens, t))]

GroupNames == <<"colors", "spacing", "typography", "radius", "shadows", "other">>

\* groupTokensByType: the group one token is pushed to
GroupOf(token) ==
  IF token.type = "color" THEN "colors"
  ELSE IF token.type = "dimension"
       THEN LET name == ToLowerCase(token.name) IN
            IF Contains(name, "spacing") \/ Contains(name, "gap") \/ Contains(name, "scale")
            THEN "spacing"
            ELSE IF Contains(name, "radius") THEN "radius"
            ELSE IF Contains(name, "font") THEN "typography"
            ELSE "spacing"
  ELSE IF token.type = "shadow" THEN "shadows"
  ELSE "other"

groupTokensByType(tokens) ==
  [g \in Range(GroupNames) |-> SelectSeq(tokens, LAMBDA t : GroupOf(t) = g)]

\* one line of an artifact: `name: value` inside the block or export `scope`
Entry(scope, name, value) == [scope |-> scope, name |-> name, value |-> value]

File(path, entries) == [path |-> path, entries |-> entries]

\* fs.writeFileSync for a set of files with distinct paths
WriteFiles(fs, new) == {f \in fs : \A g \in new : g.path # f.path} \cup new

generateCSSVariables(tokens, prefix) ==
  [i \in 1..Len(tokens) |->
     Entry(":root",
           IF ~Falsy(prefix) THEN "--" \o prefix \o "-" \o tokens[i].name
           ELSE "--" \o tokens[i].name,
           tokens[i].value)]

generateTypeScript(tokens, exportName) ==
  [i \in 1..Len(tokens) |->
     Entry(exportName, tokens[i].name, "'" \o tokens[i].value \o "'")]

\* the files of one level, the legacy ones under the names of the main ones
LevelFilesSamePath(tokens, outputDir, level, prefix, legacy) ==
  LET groups == groupTokensByType(tokens) IN
  UNION { IF groups[type] = <<>> THEN {}
          ELSE LET dir == outputDir \o "/" \o level \o "-tokens/" \o type \o "/"
                   exportName == level \o capitalize(type) \o (IF legacy THEN "Legacy" ELSE "")
               IN { File(dir \o type \o ".css",
                         generateCSSVariables(groups[type], prefix)),
                    File(dir \o type \o ".ts",
                         generateTypeScript(groups[type], exportName)) }
        : type \in Range(GroupNames) }

\* one of the four loops of transformAndOutput: the files of one level
\* ("primitive" or "semantic") for the active or the legacy tokens
LevelFiles(tokens, outputDir, level, prefix, legacy) ==
  LET groups == groupTokensByType(tokens) IN
  UNION { IF groups[type] = <<>> THEN {}
          ELSE LET dir == outputDir \o "/" \o level \o "-tokens/" \o type \o "/"
                   mid == IF legacy THEN ".legacy" ELSE ""
                   exportName == level \o capitalize(type) \o (IF legacy THEN "Legacy" ELSE "")
               IN { File(dir \o type \o mid \o ".css",
                         generateCSSVariables(groups[type], prefix)),
                    File(dir \o type \o mid \o ".ts",
                         generateTypeScript(groups[type], exportName)) }
        : type \in Range(GroupNames) }

\* an output step that writes the active tokens only
transformAndOutputActiveOnly(fs, tokens, outputDir, cfg) ==
  LET active == classifyTokens(SelectSeq(tokens, LAMBDA t : ~t.isLegacy))
  IN WriteFiles(WriteFiles(fs, LevelFiles(active.primitives, outputDir, "primitive",
                                          cfg.cssPrefix.primitive, FALSE)),
                LevelFiles(active.semantics, outputDir, "semantic",
                           cfg.cssPrefix.semantic, FALSE))

transformAndOutput(fs, tokens, outputDir, cfg) ==
  LET activeTokens == SelectSeq(tokens, LAMBDA t : ~t.isLegacy)
      legacy == SelectSeq(tokens, LAMBDA t : t.isLegacy)
      active == classifyTokens(activeTokens)
      old == classifyTokens(legacy)
      fs1 == WriteFiles(fs, LevelFiles(active.primitives, outputDir, "primitive",
                                       cfg.cssPrefix.primitive, FALSE))
      fs2 == WriteFiles(fs1, LevelFiles(active.semantics, outputDir, "semantic",
                                        cfg.cssPrefix.semantic, FALSE))
  IN IF legacy = <<>> THEN fs2
     ELSE WriteFiles(
            WriteFiles(fs2, LevelFiles(old.primitives, outputDir, "primitive",
                                       cfg.cssPrefix.primitive, TRUE)),
            LevelFiles(old.semantics, outputDir, "semantic", cfg.cssPrefix.semantic, TRUE))

-----------------------------------------------------------------------------
(* Legacy transformer: classification and output *)

\* legacy classifyTokens: the branch taken for one token
LegacyIsPrimitive(tokens, token) ==
  IF ~Falsy(token.references)
  THEN LET j == KeyIndex(tokens, token.references)
           isDimensionReferencingDimension ==
             token.type = "dimension" /\ j # 0 /\ tokens[j].type = "dimension"
       IN isDimensionReferencingDimension
  ELSE TRUE

LegacyClassifyTokens(tokens) ==
  [primitives |-> SelectSeq(tokens, LAMBDA t : LegacyIsPrimitive(tokens, t)),
   semantics  |-> SelectSeq(tokens, LAMBDA t : ~LegacyIsPrimitive(tokens, t))]

groupByCategory(tokens) ==
  [colors       |-> SelectSeq(tokens, LAMBDA t : t.type = "color"),
   dimensions   |-> SelectSeq(tokens, LAMBDA t : t.type = "dimension"),
   fontFamilies |-> SelectSeq(tokens, LAMBDA t : t.type = "fontFamily"),
   fontWeights  |-> SelectSeq(tokens, LAMBDA t : t.type = "fontWeight"),
   durations    |-> SelectSeq(tokens, LAMBDA t : t.type = "duration"),
   other        |-> SelectSeq(tokens, LAMBDA t :
                      t.type \notin {"color", "dimension", "fontFamily", "fontWeight",
                                     "duration"})]

toCSSVariableName(name, prefix) ==
  LET kebab == Str(ReplaceChar(Chars(ToLowerCase(Str(CamelToKebab(
                 ReplaceChar(Chars(name), ".", "-"))))), "_", "-"))
  IN IF ~Falsy(prefix) THEN prefix \o "-" \o kebab ELSE kebab

uncapitalize(str) ==
  IF str = "" THEN "" ELSE LowerChar(SubSeq(str, 1, 1)) \o SubSeq(str, 2, Len(str))

toTypeScriptName(name) ==
  LET parts == Split(Chars(name), ".")
      cased == [i \in 1..Len(parts) |->
                  IF i = 1 THEN uncapitalize(parts[i]) ELSE capitalize(parts[i])]
  IN Str(SelectSeq(Chars(Join(cased, "")), LAMBDA c : c # "_"))

\* generateTypeScript of the legacy transformer
LegacyGenerateTypeScript(tokens, name, isPrimitive) ==
  LET exportName == IF isPrimitive THEN "primitive" \o capitalize(name) ELSE name IN
  [i \in 1..Len(tokens) |->
     Entry(exportName, toTypeScriptName(tokens[i].name), "'" \o tokens[i].value \o "'")]

\* generateCSS of the legacy transformer
LegacyGenerateCSS(tokens, prefix) ==
  [i \in 1..Len(tokens) |->
     Entry(":root", "--" \o toCSSVariableName(tokens[i].name, prefix), tokens[i].value)]

generateTokenFile(tokens, outputDir, name, cssPrefix, isPrimitive) ==
  { File(outputDir \o "/" \o name \o ".ts", LegacyGenerateTypeScript(tokens, name, isPrimitive)),
    File(outputDir \o "/" \o name \o ".css", LegacyGenerateCSS(tokens, cssPrefix)) }

generatePrimitiveTokens(grouped, cfg) ==
  (IF grouped.colors # <<>>
   THEN generateTokenFile(grouped.colors, cfg.outputDir \o "/colors", "colors",
                          cfg.cssPrefix.primitive, TRUE)
   ELSE {})
  \cup
  (IF grouped.dimensions # <<>>
   THEN generateTokenFile(grouped.dimensions, cfg.outputDir \o "/spacing", "spacing",
                          cfg.cssPrefix.primitive, TRUE)
   ELSE {})

\* token.path[0]
TopLevel(name) == Split(Chars(name), ".")[1]

\* String.prototype.replace(sub, rep): the first occurrence only
ReplaceFirst(str, sub, rep) ==
  IF ~Contains(str, sub) THEN str
  ELSE LET i == CHOOSE k \in 1..Len(str) :
                  /\ SubSeq(str, k, k + Len(sub) - 1) = sub
                  /\ \A m \in 1..(k - 1) : SubSeq(str, m, m + Len(sub) - 1) # sub
       IN SubSeq(str, 1, i - 1) \o rep \o SubSeq(str, i + Len(sub), Len(str))

\* the keys of the groups object, in insertion order
RECURSIVE GroupKeys(_, _)
GroupKeys(tokens, seen) ==
  IF tokens = <<>> THEN seen
  ELSE LET g == TopLevel(Head(tokens).name) IN
       GroupKeys(Tail(tokens), IF InSeq(g, seen) THEN seen ELSE Append(seen, g))

RECURSIVE Concat(_)
Concat(seqs) == IF seqs = <<>> THEN <<>> ELSE Head(seqs) \o Concat(Tail(seqs))

generateSemanticColorFile(tokens, outputDir, cfg) ==
  LET keys == GroupKeys(tokens, <<>>)
      groupEntries(groupName) ==
        LET groupTokens == SelectSeq(tokens, LAMBDA t : TopLevel(t.name) = groupName) IN
        [i \in 1..Len(groupTokens) |->
           Entry(ToLowerCase(groupName) \o "Colors",
                 toTypeScriptName(ReplaceFirst(groupTokens[i].name, groupName \o ".", "")),
                 "'var(--" \o toCSSVariableName(groupTokens[i].name, cfg.cssPrefix.semantic)
                   \o ")'")]
      cssVars ==
        [i \in 1..Len(tokens) |->
           Entry(":root",
                 "--" \o toCSSVariableName(tokens[i].name, cfg.cssPrefix.semantic),
                 "var(--" \o toCSSVariableName(tokens[i].references, cfg.cssPrefix.primitive)
                   \o ")")]
  IN { File(outputDir \o "/colors.ts", Concat([k \in 1..Len(keys) |-> groupEntries(keys[k])])),
       File(outputDir \o "/colors.css", cssVars) }

generateSemanticTokens(grouped, cfg) ==
  IF grouped.colors # <<>>
  THEN generateSemanticColorFile(grouped.colors, cfg.semanticDir \o "/colors", cfg)
  ELSE {}

\* the body of the legacy transformer script after the tokens were loaded
LegacyTransformFiles(fs, tokens, cfg) ==
  LET classes == LegacyClassifyTokens(tokens) IN
  WriteFiles(WriteFiles(fs, generatePrimitiveTokens(groupByCategory(classes.primitives), cfg)),
             generateSemanticTokens(groupByCategory(classes.semantics), cfg))

-----------------------------------------------------------------------------
(* The two transformer scripts, from the input directory to the output files *)

MaxNodes == 3

NodePool ==
  { Node(<<"scale", "200">>, "16px", "dimension"),
    Node(<<"Gap", "M">>, "{scale.200}", "dimension"),
    Node(<<"Grey", "900">>, "#111111", "color"),
    Node(<<"Grey", "900">>, "#222222", "color"),
    Node(<<"Text", "Body">>, "{Grey.900}", "color"),
    Node(<<"Text", "Body">>, "#333333", "color"),
    Node(<<"Brand", "Main">>, "{Brand.Missing}", "color"),
    Node(<<"Grey", "100 (legacy)">>, "#eeeeee", "color") }

\* the documents of the input directory: nothing, one file, or two files
SplitFiles(nodes, cut) ==
  IF nodes = <<>> THEN <<>>
  ELSE IF cut = Len(nodes) THEN <<nodes>>
  ELSE <<SubSeq(nodes, 1, cut), SubSeq(nodes, cut + 1, Len(nodes))>>

Configs == {Config("primitive", ""), Config("", "semantic")}

Init ==
  /\ parser \in {"universal", "legacy"}
  /\ config \in Configs
  /\ \E nodes \in SeqsUpTo(NodePool, MaxNodes) :
       \E cut \in (IF nodes = <<>> THEN {0} ELSE 1..Len(nodes)) :
         files = SplitFiles(nodes, cut)
  /\ pc = IF parser = "universal" /\ files = <<>> THEN "resolve" ELSE "read"
  /\ artifacts = {}
  /\ UniversalIdle
  /\ LegacyIdle
  /\ ClassifyIdle
  /\ FigmaIdle
  /\ DetectIdle

\* a file whose content is not JSON: JSON.parse(content) throws a SyntaxError
MalformedFile == <<Node(<<>>, "SyntaxError", "malformed")>>

JSONParseThrows(file) == file = MalformedFile

\* a first pass that hands over to the resolver after each file
ReadFileThenResolve ==
  /\ parser = "universal"
  /\ pc = "read"
  /\ fileIdx <= Len(files)
  /\ allTokens' = IF JSONParseThrows(files[fileIdx]) THEN allTokens
                  ELSE allTokens \o W3CFlattenTokens(files[fileIdx])
  /\ fileIdx' = IF JSONParseThrows(files[fileIdx]) THEN fileIdx ELSE fileIdx + 1
  /\ pc' = IF JSONParseThrows(files[fileIdx]) THEN "failed"
           ELSE "resolve"
  /\ UNCHANGED <<parser, config, files, artifacts, warnings, runs, dedupedTokens,
                 duplicatesRemoved, legacyVars, classifyVars, figmaVars, detectVars>>

\* parseTokenFiles, first pass: one iteration of the loop over the files; an
\* exception of JSON.parse reaches the catch of the command line entry, which exits
ReadFile ==
  /\ parser = "universal"
  /\ pc = "read"
  /\ fileIdx <= Len(files)
  /\ allTokens' = IF JSONParseThrows(files[fileIdx]) THEN allTokens
                  ELSE allTokens \o W3CFlattenTokens(files[fileIdx])
  /\ fileIdx' = IF JSONParseThrows(files[fileIdx]) THEN fileIdx ELSE fileIdx + 1
  /\ pc' = IF JSONParseThrows(files[fileIdx]) THEN "failed"
           ELSE IF fileIdx = Len(files) THEN "resolve" ELSE "read"
  /\ UNCHANGED <<parser, config, files, artifacts, warnings, runs, dedupedTokens,
                 duplicatesRemoved, legacyVars, classifyVars, figmaVars, detectVars>>

\* parseTokenFiles, second pass: references are resolved across all files
ResolveCrossFile ==
  /\ parser = "universal"
  /\ pc = "resolve"
  /\ runs = 0
  /\ LET r == ResolveReferences(allTokens) IN
       /\ allTokens' = r.toks
       /\ warnings' = r.warns
  /\ runs' = runs + 1
  /\ pc' = "dedup"
  /\ UNCHANGED <<parser, config, files, artifacts, fileIdx, dedupedTokens,
                 duplicatesRemoved, legacyVars, classifyVars, figmaVars, detectVars>>

\* parseTokenFiles, third pass: one token per name
Deduplicate ==
  /\ parser = "universal"
  /\ pc = "dedup"
  /\ LET d == DeduplicateTokens(allTokens) IN
       /\ dedupedTokens' = d.map
       /\ duplicatesRemoved' = d.removed
  /\ pc' = "output"
  /\ UNCHANGED <<parser, config, files, artifacts, fileIdx, allTokens, warnings, runs,
                 legacyVars, classifyVars, figmaVars, detectVars>>

\* transformAndOutput(tokens, 'src')
TransformAndOutput ==
  /\ parser = "universal"
  /\ pc = "output"
  /\ artifacts' = transformAndOutput(artifacts, dedupedTokens, "src", config)
  /\ pc' = "done"
  /\ UNCHANGED <<parser, config, files, universalVars, legacyVars, classifyVars, figmaVars,
                 detectVars>>

\* loadW3CTokenFiles: every file is flattened into one object, then resolved; the
\* try/catch inside the loop logs a file that does not parse and goes on
LoadW3CTokenFiles ==
  /\ parser = "legacy"
  /\ pc = "read"
  /\ LET flat == LegacyFlatten(Concat([i \in 1..Len(files) |->
                                         IF JSONParseThrows(files[i]) THEN <<>>
                                         ELSE LegacyLeaves(files[i])]), <<>>)
         r == LegacyResolveReferences(flat)
     IN /\ legacyTokens' = r.toks
        /\ legacyWarnings' = r.warns
  /\ legacyRuns' = legacyRuns + 1
  /\ pc' = "transform"
  /\ UNCHANGED <<parser, config, files, artifacts, universalVars, classifyVars, figmaVars,
                 detectVars>>

\* tokens.config.js does not exist
NoConfigFile == [found |-> FALSE]

\* tokens.config.js without the cssPrefix block
ConfigWithoutPrefix ==
  [outputDir |-> "src/primitive-tokens", semanticDir |-> "src/semantic-tokens",
   transformations |-> [reorderSemanticTokens |-> FALSE, categoryKeywords |-> <<>>]]

HasCssPrefix(cfg) == "cssPrefix" \in DOMAIN cfg

\* the legacy generators evaluate config.cssPrefix.<tier> when a group of colours
\* or dimensions is not empty
ReadsCssPrefix(tokens) ==
  \/ groupByCategory(LegacyClassifyTokens(tokens).primitives).colors # <<>>
  \/ groupByCategory(LegacyClassifyTokens(tokens).primitives).dimensions # <<>>
  \/ groupByCategory(LegacyClassifyTokens(tokens).semantics).colors # <<>>

\* the legacy transformer script: classify, group, write the files; without
\* config.cssPrefix the first generator that reads a prefix throws a TypeError
LegacyTransform ==
  /\ parser = "legacy"
  /\ pc = "transform"
  /\ artifacts' = IF HasCssPrefix(config)
                  THEN LegacyTransformFiles(artifacts, legacyTokens, config)
                  ELSE artifacts
  /\ pc' = IF ~HasCssPrefix(config) /\ ReadsCssPrefix(legacyTokens) THEN "failed" ELSE "done"
  /\ UNCHANGED <<parser, config, files, universalVars, legacyVars, classifyVars, figmaVars,
                 detectVars>>

Next ==
  \/ ReadFile
  \/ ResolveCrossFile
  \/ Deduplicate
  \/ TransformAndOutput
  \/ LoadW3CTokenFiles
  \/ LegacyTransform

Spec == Init /\ [][Next]_vars

-----------------------------------------------------------------------------
(* The two transformer scripts on a directory that may hold a file that is not JSON *)

MaxFiles == 3

DocumentPool ==
  { <<Node(<<"Grey", "900">>, "#111111", "color")>>,
    <<Node(<<"Text", "Body">>, "{Grey.900}", "color")>>,
    <<Node(<<"scale", "200">>, "16px", "dimension"),
      Node(<<"Gap", "M">>, "{scale.200}", "dimension")>>,
    MalformedFile }

InitDirectory ==
  /\ parser \in {"universal", "legacy"}
  /\ config \in Configs
  /\ files \in SeqsUpTo(DocumentPool, MaxFiles) \ {<<>>}
  /\ pc = "read"
  /\ artifacts = {}
  /\ UniversalIdle
  /\ LegacyIdle
  /\ ClassifyIdle
  /\ FigmaIdle
  /\ DetectIdle

SpecDirectory == InitDirectory /\ [][Next]_vars

-----------------------------------------------------------------------------
(* The two transformer scripts from the loading of tokens.config.js *)

ConfigFiles == Configs \cup {NoConfigFile, ConfigWithoutPrefix}

InitConfig ==
  /\ parser \in {"universal", "legacy"}
  /\ config \in ConfigFiles
  /\ files \in SeqsUpTo(DocumentPool, MaxFiles - 1) \ {<<>>}
  /\ pc = "config"
  /\ artifacts = {}
  /\ UniversalIdle
  /\ LegacyIdle
  /\ ClassifyIdle
  /\ FigmaIdle
  /\ DetectIdle

\* loadConfig of the universal parser: the file must exist and have cssPrefix
LoadConfig ==
  /\ parser = "universal"
  /\ pc = "config"
  /\ pc' = IF config = NoConfigFile \/ ~HasCssPrefix(config) THEN "failed" ELSE "read"
  /\ UNCHANGED <<parser, config, files, artifacts, universalVars, legacyVars, classifyVars,
                 figmaVars, detectVars>>

\* the legacy transformer script: await import(configPath), nothing is validated
ImportConfig ==
  /\ parser = "legacy"
  /\ pc = "config"
  /\ pc' = IF config = NoConfigFile THEN "failed" ELSE "read"
  /\ UNCHANGED <<parser, config, files, artifacts, universalVars, legacyVars, classifyVars,
                 figmaVars, detectVars>>

NextConfig ==
  \/ LoadConfig
  \/ ImportConfig
  \/ Next

SpecConfig == InitConfig /\ [][NextConfig]_vars

-----------------------------------------------------------------------------
(* The universal parser on a document that refers to a token by its own path *)

MaxPathLen == 2

\* keys as they are written in token files
PathSegments == {"Grey", "900", "0.5", "font_size", "100 (legacy)", "Brand Blue"}

TokenPaths == UNION {[1..k -> PathSegments] : k \in 1..MaxPathLen}

\* { ...: { "$value": "#111111" }, "alias": { "$value": "{<path joined by dots>}" } }
OwnPathDocument(path) ==
  <<Node(path, "#111111", "color"), Node(<<"alias">>, Ref(Join(path, ".")), "color")>>

InitOwnPath ==
  /\ parser = "universal"
  /\ pc = "read"
  /\ config \in Configs
  /\ \E path \in TokenPaths : files = <<OwnPathDocument(path)>>
  /\ artifacts = {}
  /\ UniversalIdle
  /\ LegacyIdle
  /\ ClassifyIdle
  /\ FigmaIdle
  /\ DetectIdle

NextUniversal == ReadFile \/ ResolveCrossFile \/ Deduplicate \/ TransformAndOutput

SpecOwnPath == InitOwnPath /\ [][NextUniversal]_vars

-----------------------------------------------------------------------------
(* The output step of the universal parser on the tokens of one document *)

MaxOutputNodes == 3

\* nodes of every tier, group and kind that transformAndOutput tells apart
OutputNodePool ==
  { Node(<<"Grey", "900">>, "#111111", "color"),
    Node(<<"Grey", "100 (legacy)">>, "#eeeeee", "color"),
    Node(<<"Text", "Body">>, "{Grey.900}", "color"),
    Node(<<"Text", "Old (deprecated)">>, "{Grey.900}", "color"),
    Node(<<"radius", "small">>, "4px", "dimension"),
    Node(<<"font-size", "m">>, "16px", "dimension"),
    Node(<<"elevation", "1">>, "0 1px 2px", "shadow"),
    Node(<<"untyped", "x">>, "1", Null) }

\* the state in which parseTokenFiles returns for one W3C document
InitOutput ==
  /\ parser = "universal"
  /\ pc = "output"
  /\ config \in Configs
  /\ \E nodes \in SeqsUpTo(OutputNodePool, MaxOutputNodes) : files = <<nodes>>
  /\ artifacts = {}
  /\ fileIdx = 2
  /\ allTokens = ResolveReferences(W3CFlattenTokens(files[1])).toks
  /\ warnings = ResolveReferences(W3CFlattenTokens(files[1])).warns
  /\ runs = 1
  /\ dedupedTokens = DeduplicateTokens(allTokens).map
  /\ duplicatesRemoved = DeduplicateTokens(allTokens).removed
  /\ LegacyIdle
  /\ ClassifyIdle
  /\ FigmaIdle
  /\ DetectIdle

NextOutput == TransformAndOutput

SpecOutput == InitOutput /\ [][NextOutput]_vars

-----------------------------------------------------------------------------
(* Figma transformer: classifyToken and config.classificationRules *)

semanticKeywords ==
  <<"primary", "secondary", "tertiary", "brand", "accent",
    "action", "interactive", "hover", "active", "focus", "disabled", "pressed", "selected",
    "success", "error", "warning", "info", "danger", "positive", "negative", "neutral",
    "background", "surface", "foreground", "text", "border", "overlay", "backdrop", "shadow",
    "button", "input", "card", "modal", "badge", "tag", "nav", "header", "footer", "sidebar">>

AllLower(cs) == cs # <<>> /\ \A i \in 1..Len(cs) : IsLower(cs[i])
AllDigits(cs) == cs # <<>> /\ \A i \in 1..Len(cs) : IsDigit(cs[i])

\* /^[a-z]+-\d{2,3}$/
NumericScalePattern(cs) ==
  \E k \in 1..Len(cs) :
    /\ cs[k] = "-"
    /\ AllLower(SubSeq(cs, 1, k - 1))
    /\ AllDigits(SubSeq(cs, k + 1, Len(cs)))
    /\ Len(cs) - k \in {2, 3}

\* /^[a-z]+-[a-z]+\d{2}$/
FamilyScalePattern(cs) ==
  \E k \in 1..Len(cs) :
    /\ cs[k] = "-"
    /\ AllLower(SubSeq(cs, 1, k - 1))
    /\ Len(cs) - k >= 3
    /\ AllLower(SubSeq(cs, k + 1, Len(cs) - 2))
    /\ AllDigits(SubSeq(cs, Len(cs) - 1, Len(cs)))

\* /^<prefix>\d+$/ for a literal prefix
PrefixNumberPattern(prefix, cs) ==
  /\ Len(cs) > Len(prefix)
  /\ Str(SubSeq(cs, 1, Len(prefix))) = prefix
  /\ AllDigits(SubSeq(cs, Len(prefix) + 1, Len(cs)))

\* config.classificationRules.primitivePatterns, pattern i tested on a name
PrimitivePatternTest(i, name) ==
  LET cs == Chars(name) IN
  CASE i = 1 -> NumericScalePattern(cs)
    [] i = 2 -> FamilyScalePattern(cs)
    [] i = 3 -> PrefixNumberPattern("spacing-", cs)
    [] i = 4 -> PrefixNumberPattern("radius-", cs)
    [] i = 5 -> PrefixNumberPattern("font-size-", cs)
    [] i = 6 -> PrefixNumberPattern("line-height-", cs)
    [] i = 7 -> name \in {"white", "black", "transparent"}

primitivePatternCount == 7

MatchesPrimitivePattern(name) ==
  \E i \in 1..primitivePatternCount : PrimitivePatternTest(i, name)

HasSemanticKeyword(name) ==
  LET nameLower == ToLowerCase(name) IN
  \E i \in 1..Len(semanticKeywords) : Contains(nameLower, semanticKeywords[i])

\* /[-]?\d+$/.test(name)
EndsInDigits(name) == name # "" /\ IsDigit(SubSeq(name, Len(name), Len(name)))

\* a classifier that looks for the semantic keywords before the primitive patterns
classifyTokenKeywordsFirst(name) ==
  IF HasSemanticKeyword(name) THEN "semantic"
  ELSE IF MatchesPrimitivePattern(name) THEN "primitive"
  ELSE IF EndsInDigits(name) THEN "primitive" ELSE "semantic"

classifyToken(name) ==
  IF MatchesPrimitivePattern(name) THEN "primitive"
  ELSE IF HasSemanticKeyword(name) THEN "semantic"
  ELSE IF EndsInDigits(name) THEN "primitive" ELSE "semantic"

NameStems ==
  {"green", "Green", "grey", "primary", "text", "brand-blue", "surface", "heritage",
   "spacing", "radius", "font-size", "line-height", "white", "black", "transparent", "x"}

NameSuffixes == {"", "-5", "-05", "-100", "-1000", "01", "9", "-green01", "-main"}

TokenNames == {stem \o suffix : stem \in NameStems, suffix \in NameSuffixes}

InitClassify ==
  /\ parser = "figma"
  /\ pc = "classify"
  /\ config = Config("primitive", "")
  /\ files = <<>>
  /\ artifacts = {}
  /\ tokenName \in TokenNames
  /\ classification = Null
  /\ cleanedName = Null
  /\ reorderedName = Null
  /\ UniversalIdle
  /\ LegacyIdle
  /\ FigmaIdle
  /\ DetectIdle

\* one call classifyToken(tokenName)
ClassifyToken ==
  /\ parser = "figma"
  /\ pc = "classify"
  /\ classification' = classifyToken(tokenName)
  /\ pc' = "classified"
  /\ UNCHANGED <<parser, config, files, artifacts, tokenName, cleanedName, reorderedName,
                 universalVars, legacyVars, figmaVars, detectVars>>

NextClassify == ClassifyToken

SpecClassify == InitClassify /\ [][NextClassify]_vars

-----------------------------------------------------------------------------
(* Figma transformer: names *)

Min(a, b) == IF a <= b THEN a ELSE b

\* the helper longestCommonPrefix of cleanTokenName
longestCommonPrefix(a, b) ==
  SetMax({i \in 0..Min(Len(a), Len(b)) : \A j \in 1..i : SubSeq(a, j, j) = SubSeq(b, j, j)})

\* .replace(/([a-z])(\d)/g, '$1-$2')
\* a match ends on a digit, which starts no further match
LetterDigitDash(cs) ==
  Flatten([i \in 1..Len(cs) |->
             IF i < Len(cs) /\ IsLower(cs[i]) /\ IsDigit(cs[i + 1])
             THEN <<cs[i], "-">> ELSE <<cs[i]>>])

cleanTokenName(name) ==
  LET split == Split(Chars(name), "-")
      parts == IF ToLowerCase(split[1]) = "secondary" /\ Len(split) >= 3
               THEN Tail(split) ELSE split
      kept == IF Len(parts) >= 2
              THEN LET firstPart == ToLowerCase(parts[1])
                       secondPart == ToLowerCase(parts[2])
                       commonLength == longestCommonPrefix(firstPart, secondPart)
                   IN IF \/ commonLength >= 4
                         \/ StartsWith(secondPart, firstPart)
                         \/ StartsWith(firstPart, secondPart)
                      THEN Tail(parts) ELSE parts
              ELSE parts
  IN ToLowerCase(Str(LetterDigitDash(CamelToKebab(
       ReplaceChar(Chars(Join(kept, "-")), "&", "-")))))

\* parts.indexOf(keyword): the first index, 0 when the keyword is no part
IndexOf(parts, keyword) ==
  IF InSeq(keyword, parts)
  THEN CHOOSE i \in 1..Len(parts) : parts[i] = keyword /\ \A j \in 1..(i - 1) : parts[j] # keyword
  ELSE 0

\* the for loop of reorderSemanticToken from keyword k on
RECURSIVE ReorderFrom(_, _, _, _)
ReorderFrom(name, parts, keywords, k) ==
  IF k > Len(keywords) THEN name
  ELSE LET keywordIndex == IndexOf(parts, keywords[k]) IN
       IF keywordIndex > 1
       THEN Join(<<parts[keywordIndex]>> \o SubSeq(parts, 1, keywordIndex - 1)
                   \o SubSeq(parts, keywordIndex + 1, Len(parts)), "-")
       ELSE ReorderFrom(name, parts, keywords, k + 1)

reorderSemanticToken(name, cfg) ==
  IF ~cfg.transformations.reorderSemanticTokens THEN name
  ELSE ReorderFrom(name, Split(Chars(name), "-"), cfg.transformations.categoryKeywords, 1)

\* tokens.config.js with the transformations block of the README
ReorderConfig(enabled, keywords) ==
  [Config("primitive", "") EXCEPT
     !.transformations = [reorderSemanticTokens |-> enabled, categoryKeywords |-> keywords]]

ReorderConfigs ==
  {ReorderConfig(FALSE, <<"text", "border">>)}
    \cup {ReorderConfig(TRUE, kws) :
            kws \in {<<>>, <<"text">>, <<"text", "border">>, <<"border", "text">>}}

MaxSegments == 3

NameSegments == {"text", "border", "primary", "black", "main"}

\* hyphenated names of at most n segments
RECURSIVE NamesUpTo(_)
NamesUpTo(n) ==
  IF n <= 1 THEN NameSegments
  ELSE NamesUpTo(n - 1)
         \cup {head \o "-" \o s : head \in NamesUpTo(n - 1), s \in NameSegments}

\* keys as they come out of Figma
FigmaNames ==
  {"Radius-radius-small", "Spacing-space-small", "Secondary-Brown-brown00",
   "Primary-primaryMain", "Secondary-brown", "secondary-Blue-blue05", "Base-black",
   "Text-primaryBlackText", "System-Info&Light", "Grey-GREY05", "Heading-H1",
   "Brand-brandBlue2", "Rad-radius-small", "Space-spacing-4", "Green-green05",
   "SECONDARY-Teal-tealMain", "Secondary-Secondary-x9", "main"}

InitNames ==
  /\ parser = "figma"
  /\ pc = "clean"
  /\ config \in ReorderConfigs
  /\ files = <<>>
  /\ artifacts = {}
  /\ tokenName \in NamesUpTo(MaxSegments) \cup FigmaNames
  /\ classification = Null
  /\ cleanedName = Null
  /\ reorderedName = Null
  /\ UniversalIdle
  /\ LegacyIdle
  /\ FigmaIdle
  /\ DetectIdle

\* processSemanticGroup: let cleanedKey = cleanTokenName(key)
CleanTokenName ==
  /\ parser = "figma"
  /\ pc = "clean"
  /\ cleanedName' = cleanTokenName(tokenName)
  /\ pc' = "reorder"
  /\ UNCHANGED <<parser, config, files, artifacts, tokenName, classification, reorderedName,
                 universalVars, legacyVars, figmaVars, detectVars>>

\* processSemanticGroup: cleanedKey = reorderSemanticToken(cleanedKey)
ReorderSemanticToken ==
  /\ parser = "figma"
  /\ pc = "reorder"
  /\ reorderedName' = reorderSemanticToken(cleanedName, config)
  /\ pc' = "named"
  /\ UNCHANGED <<parser, config, files, artifacts, tokenName, classification, cleanedName,
                 universalVars, legacyVars, figmaVars, detectVars>>

NextNames == CleanTokenName \/ ReorderSemanticToken

SpecNames == InitNames /\ [][NextNames]_vars

\* buildCSSVar(tier, tokenName)
buildCSSVar(cfg, tier, name) ==
  LET prefix == cfg.cssPrefix[tier] IN
  IF ~Falsy(prefix) THEN "--" \o prefix \o "-" \o name ELSE "--" \o name

-----------------------------------------------------------------------------
(* Figma transformer: objects with string keys, in insertion order *)

ObjIndex(obj, key) ==
  LET idx == {i \in 1..Len(obj) : obj[i].key = key}
  IN IF idx = {} THEN 0 ELSE CHOOSE i \in idx : TRUE

\* obj[key], Null when the key is absent
ObjGet(obj, key) == IF ObjIndex(obj, key) = 0 THEN Null ELSE obj[ObjIndex(obj, key)].value

\* obj[key] = value
ObjPut(obj, key, value) ==
  LET i == ObjIndex(obj, key) IN
  IF i = 0 THEN Append(obj, [key |-> key, value |-> value])
  ELSE [obj EXCEPT ![i].value = value]

\* { ...a, ...b }
RECURSIVE ObjAssign(_, _)
ObjAssign(a, b) ==
  IF b = <<>> THEN a ELSE ObjAssign(ObjPut(a, Head(b).key, Head(b).value), Tail(b))

-----------------------------------------------------------------------------
(* Figma transformer: colours *)

HexChars == Chars("0123456789abcdef")

IsHexChar(c) == InSeq(LowerChar(c), HexChars)

HexVal(c) == (CHOOSE i \in 1..Len(HexChars) : HexChars[i] = LowerChar(c)) - 1

Byte(cs, i) == HexVal(cs[i]) * Len(HexChars) + HexVal(cs[i + 1])

\* what hexToRgb returns for null
NoRgb == [r |-> -1, g |-> -1, b |-> -1]

\* hexToRgb: null unless the string is six hex digits after an optional #
hexToRgb(hex) ==
  LET all == Chars(hex)
      cs == IF all # <<>> /\ Head(all) = "#" THEN Tail(all) ELSE all
  IN IF Len(cs) = 6 /\ \A i \in 1..Len(cs) : IsHexChar(cs[i])
     THEN [r |-> Byte(cs, 1), g |-> Byte(cs, 3), b |-> Byte(cs, 5)]
     ELSE NoRgb

\* the value that stands for Infinity among squared distances
Infinity == 3 * 255 * 255 + 1

\* colorDistance once both colours are parsed
RgbDistance2(rgb1, rgb2) ==
  IF rgb1 = NoRgb \/ rgb2 = NoRgb THEN Infinity
  ELSE (rgb1.r - rgb2.r) * (rgb1.r - rgb2.r) + (rgb1.g - rgb2.g) * (rgb1.g - rgb2.g)
         + (rgb1.b - rgb2.b) * (rgb1.b - rgb2.b)

\* colorDistance, squared: the square root is taken only to compare
colorDistance2(hex1, hex2) == RgbDistance2(hexToRgb(hex1), hexToRgb(hex2))

\* if (distance < closestDistance) { closestDistance = distance; closestName = name }
Closer(st, name, distance) ==
  IF distance < st.distance THEN [name |-> name, distance |-> distance] ELSE st

\* the for loop of findClosestPrimitive; st = [name, distance]
RECURSIVE ClosestFrom(_, _, _, _)
ClosestFrom(st, hexValue, primitiveTokens, i) ==
  IF i > Len(primitiveTokens) THEN st
  ELSE ClosestFrom(Closer(st, primitiveTokens[i].key,
                          colorDistance2(hexValue, primitiveTokens[i].value)),
                   hexValue, primitiveTokens, i + 1)

\* what findClosestPrimitive returns for null
NoPrimitive == [name |-> Null, distance |-> Infinity]

\* findClosestPrimitive: null when nothing is within maxDistance
WithinDistance(st, maxDistance) ==
  IF st.distance <= maxDistance * maxDistance THEN st ELSE NoPrimitive

findClosestPrimitive(hexValue, primitiveTokens, maxDistance) ==
  WithinDistance(ClosestFrom(NoPrimitive, hexValue, primitiveTokens, 1), maxDistance)

Max3(a, b, c) == SetMax({a, b, c})
Min3(a, b, c) == CHOOSE m \in {a, b, c} : \A x \in {a, b, c} : m <= x

\* rgbToHsl, kept as fractions: h = hn/hd degrees, s = sn/sd percent, l = ln/ld percent
rgbToHsl(r, g, b) ==
  LET max == Max3(r, g, b)
      min == Min3(r, g, b)
      d == max - min
  IN IF max = min
     THEN [hn |-> 0, hd |-> 1, sn |-> 0, sd |-> 1, ln |-> 100 * (max + min), ld |-> 510]
     ELSE [hn |-> IF max = r THEN 60 * (g - b) + (IF g < b THEN 360 * d ELSE 0)
                  ELSE IF max = g THEN 60 * (b - r) + 120 * d
                  ELSE 60 * (r - g) + 240 * d,
           hd |-> d,
           sn |-> 100 * d,
           sd |-> IF max + min > 255 THEN 510 - max - min ELSE max + min,
           ln |-> 100 * (max + min), ld |-> 510]

HLt(hsl, x) == hsl.hn < x * hsl.hd
SLt(hsl, x) == hsl.sn < x * hsl.sd
SGt(hsl, x) == hsl.sn > x * hsl.sd
LGt(hsl, x) == hsl.ln > x * hsl.ld

\* a helper that sets the first candidate apart when every candidate is used
findAvailableSuffixed(names, usedNames) ==
  IF \E i \in 1..Len(names) : names[i] \notin usedNames
  THEN names[CHOOSE i \in 1..Len(names) :
               names[i] \notin usedNames /\ \A j \in 1..(i - 1) : names[j] \in usedNames]
  ELSE names[1] \o "2"

\* the helper findAvailable of getPureColorName
findAvailable(names, usedNames) ==
  IF \E i \in 1..Len(names) : names[i] \notin usedNames
  THEN names[CHOOSE i \in 1..Len(names) :
               names[i] \notin usedNames /\ \A j \in 1..(i - 1) : names[j] \in usedNames]
  ELSE names[1]

\* the hue, saturation and lightness buckets of getPureColorName
ColorNames(hsl) ==
  IF HLt(hsl, 15) \/ ~HLt(hsl, 345)
  THEN IF SLt(hsl, 30) THEN <<"rose", "pink", "blush">>
       ELSE IF LGt(hsl, 70) THEN <<"coral", "salmon", "rose">>
       ELSE IF LGt(hsl, 50) THEN <<"crimson", "ruby", "cherry">>
       ELSE <<"ruby", "crimson", "garnet">>
  ELSE IF HLt(hsl, 45)
  THEN IF LGt(hsl, 65) THEN <<"peach", "apricot", "cream">>
       ELSE IF SGt(hsl, 70) THEN <<"tangerine", "persimmon", "tiger">>
       ELSE <<"amber", "bronze", "copper">>
  ELSE IF HLt(hsl, 70)
  THEN IF LGt(hsl, 70) THEN <<"lemon", "butter", "vanilla">>
       ELSE IF SGt(hsl, 60) THEN <<"gold", "honey", "mustard">>
       ELSE <<"olive", "khaki", "sand">>
  ELSE IF HLt(hsl, 150)
  THEN IF LGt(hsl, 70) THEN <<"mint", "sage", "seafoam">>
       ELSE IF HLt(hsl, 100) THEN <<"lime", "chartreuse", "spring">>
       ELSE IF SLt(hsl, 30) THEN <<"sage", "moss", "olive">>
       ELSE IF LGt(hsl, 50) THEN <<"emerald", "jade", "forest">>
       ELSE <<"forest", "hunter", "pine">>
  ELSE IF HLt(hsl, 200)
  THEN IF LGt(hsl, 70) THEN <<"aqua", "ice", "frost">>
       ELSE IF LGt(hsl, 50) THEN <<"teal", "turquoise", "cyan">>
       ELSE <<"ocean", "deep", "marine">>
  ELSE IF HLt(hsl, 260)
  THEN IF LGt(hsl, 70) THEN <<"sky", "powder", "baby">>
       ELSE IF SLt(hsl, 30) THEN <<"slate", "steel", "pewter">>
       ELSE IF LGt(hsl, 60) THEN <<"azure", "cerulean", "periwinkle">>
       ELSE IF LGt(hsl, 40) THEN <<"royal", "sapphire", "cobalt">>
       ELSE <<"navy", "midnight", "indigo">>
  ELSE IF HLt(hsl, 300)
  THEN IF LGt(hsl, 70) THEN <<"lavender", "lilac", "mauve">>
       ELSE IF SLt(hsl, 30) THEN <<"plum", "eggplant", "wine">>
       ELSE IF LGt(hsl, 50) THEN <<"violet", "amethyst", "orchid">>
       ELSE <<"purple", "grape", "mulberry">>
  ELSE IF LGt(hsl, 70) THEN <<"pink", "rose", "blush">>
       ELSE IF SGt(hsl, 60) THEN <<"magenta", "fuchsia", "hot">>
       ELSE <<"berry", "wine", "maroon">>

getPureColorName(hexValues, existingPrimitives) ==
  LET mainHex == hexValues[(Len(hexValues) \div 2) + 1]
      rgb == hexToRgb(mainHex)
      usedNames == {Split(Chars(existingPrimitives[i].key), "-")[1] :
                      i \in 1..Len(existingPrimitives)}
  IN IF rgb = NoRgb THEN "unknown"
     ELSE findAvailable(ColorNames(rgbToHsl(rgb.r, rgb.g, rgb.b)), usedNames)

-----------------------------------------------------------------------------
(* Figma transformer: Colors.json to the primitive and semantic colour files *)

\* /^\{(.+)\}$/
IsBraced(value) ==
  Len(value) >= 3 /\ SubSeq(value, 1, 1) = "{" /\ SubSeq(value, Len(value), Len(value)) = "}"

\* data[p1][p2]...: the $value of the leaf at the path, Null when there is none
NodeValue(nodes, path) ==
  IF \E i \in 1..Len(nodes) : nodes[i].path = path
  THEN nodes[CHOOSE i \in 1..Len(nodes) : nodes[i].path = path].value
  ELSE Null

\* the leaves below the top-level groups named, group by group
GroupNodes(nodes, groups) ==
  Concat([g \in 1..Len(groups) |-> SelectSeq(nodes, LAMBDA n : n.path[1] = groups[g])])

\* resolveTokenValue(value, data), data being the object at the path `at`
resolveTokenValue(value, nodes, at) ==
  IF ~IsBraced(value) THEN value
  ELSE LET segs == Split(Chars(Slice1(value)), ".")
           found == IF Len(segs) >= 2 THEN NodeValue(nodes, at \o <<segs[1], segs[2]>>)
                    ELSE Null
       IN IF Falsy(found) THEN value ELSE found

\* a key is cleaned once by the call that meets the leaf and once more by every
\* enclosing call
CleanTimes(name, n) ==
  LET cleaned[k \in 0..n] ==
        IF k = 0 THEN name
        ELSE CHOOSE c \in {cleanTokenName(inner) : inner \in {cleaned[k - 1]}} : TRUE
  IN cleaned[n]

\* the value is resolved by the same calls, innermost first
RECURSIVE ResolveUp(_, _, _, _)
ResolveUp(value, nodes, path, k) ==
  LET v == resolveTokenValue(value, nodes, SubSeq(path, 1, k)) IN
  IF k = 0 THEN v ELSE ResolveUp(v, nodes, path, k - 1)

RECURSIVE FigmaFlattenFrom(_, _, _)
FigmaFlattenFrom(flat, nodes, i) ==
  IF i > Len(nodes) THEN flat
  ELSE CHOOSE result \in
         {FigmaFlattenFrom(next, nodes, i + 1) :
            next \in {ObjPut(flat, CleanTimes(Join(nodes[i].path, "-"), Len(nodes[i].path)),
                             ResolveUp(nodes[i].value, nodes, nodes[i].path,
                                       Len(nodes[i].path) - 1))}} : TRUE

\* flattenTokens(primitiveData) of the Figma transformer
figmaFlattenTokens(nodes) == FigmaFlattenFrom(<<>>, nodes, 1)

RECURSIVE SemanticGroupsFrom(_, _, _)
SemanticGroupsFrom(groups, nodes, i) ==
  IF i > Len(nodes) THEN groups
  ELSE LET n == nodes[i]
           parentGroup == n.path[Len(n.path) - 1]
           color == [name |-> n.path[Len(n.path)], value |-> n.value,
                     fullPath |-> Join(n.path, "-")]
           old == IF ObjIndex(groups, parentGroup) = 0 THEN <<>>
                  ELSE ObjGet(groups, parentGroup)
       IN SemanticGroupsFrom(
            IF IsBraced(n.value) THEN groups
            ELSE ObjPut(groups, parentGroup, Append(old, color)),
            nodes, i + 1)

\* extractSemanticColorGroups: the hardcoded leaves of Text and System, by parent
extractSemanticColorGroups(nodes) ==
  SemanticGroupsFrom(<<>>, GroupNodes(nodes, <<"Text", "System">>), 1)

\* the comparator of sortByLightness, once both colours are parsed: positive
\* (a goes after b) when b is the lighter; lightness compared doubled
CompareLightness(rgbA, rgbB) ==
  rgbA # NoRgb /\ rgbB # NoRgb
    /\ Max3(rgbB.r, rgbB.g, rgbB.b) + Min3(rgbB.r, rgbB.g, rgbB.b)
         > Max3(rgbA.r, rgbA.g, rgbA.b) + Min3(rgbA.r, rgbA.g, rgbA.b)

GoesAfter(a, b) == CompareLightness(hexToRgb(a.value), hexToRgb(b.value))

InsertAt(seq, k, c) == SubSeq(seq, 1, k) \o <<c>> \o SubSeq(seq, k + 1, Len(seq))

\* c goes behind the last colour that does not go after it
InsertByLightness(sorted, c) ==
  InsertAt(sorted, SetMax({0} \cup {i \in 1..Len(sorted) : ~GoesAfter(sorted[i], c)}), c)

\* a stable sort, light to dark
RECURSIVE sortByLightness(_)
sortByLightness(colors) ==
  IF Len(colors) <= 1 THEN colors
  ELSE InsertByLightness(sortByLightness(SubSeq(colors, 1, Len(colors) - 1)),
                         colors[Len(colors)])

\* index.toString().padStart(2, '0')
Pad2(n) == IF n < 10 THEN "0" \o NatStr(n) ELSE NatStr(n)

maxColorDistance == 30

\* colors.every(...): stops at the first colour without a close primitive;
\* st = [mappings, all]
RECURSIVE EveryFrom(_, _, _, _)

\* the callback of colors.every for colour i, and the colours after it
EveryStep(st, colors, primitiveTokens, i, closest) ==
  IF closest = NoPrimitive THEN [st EXCEPT !.all = FALSE]
  ELSE EveryFrom([st EXCEPT !.mappings = ObjPut(@, colors[i].value, closest.name)],
                 colors, primitiveTokens, i + 1)

EveryFrom(st, colors, primitiveTokens, i) ==
  IF i > Len(colors) THEN st
  ELSE EveryStep(st, colors, primitiveTokens, i,
                 findClosestPrimitive(colors[i].value, primitiveTokens, maxColorDistance))

\* sortedColors.forEach(...); st = [hardcodedPrimitives, mappings]
RECURSIVE PaletteFrom(_, _, _, _)
PaletteFrom(st, sortedColors, pureColorName, i) ==
  IF i > Len(sortedColors) THEN st
  ELSE LET primitiveName == pureColorName \o "-" \o Pad2(i - 1) IN
       PaletteFrom([hardcodedPrimitives |->
                      ObjPut(st.hardcodedPrimitives, primitiveName, sortedColors[i].value),
                    mappings |-> ObjPut(st.mappings, sortedColors[i].value, primitiveName)],
                   sortedColors, pureColorName, i + 1)

\* the loop body after colors.every; every = [mappings, all]
AfterEvery(st, every, colors, primitiveTokens) ==
  IF every.all THEN [st EXCEPT !.mappings = every.mappings]
  ELSE PaletteFrom([st EXCEPT !.mappings = every.mappings], sortByLightness(colors),
                   getPureColorName([i \in 1..Len(colors) |-> colors[i].value],
                                    ObjAssign(primitiveTokens, st.hardcodedPrimitives)),
                   1)

\* the body of the loop over the groups; st = [hardcodedPrimitives, mappings]
HardcodedGroupStep(st, colors, primitiveTokens) ==
  AfterEvery(st, EveryFrom([mappings |-> st.mappings, all |-> TRUE], colors,
                           primitiveTokens, 1),
             colors, primitiveTokens)

RECURSIVE HardcodedFrom(_, _, _, _)
HardcodedFrom(st, groups, primitiveTokens, i) ==
  IF i > Len(groups) THEN st
  ELSE CHOOSE result \in
         {HardcodedFrom(next, groups, primitiveTokens, i + 1) :
            next \in {HardcodedGroupStep(st, groups[i].value, primitiveTokens)}} : TRUE

extractHardcodedSemanticValues(nodes, primitiveTokens) ==
  HardcodedFrom([hardcodedPrimitives |-> <<>>, mappings |-> <<>>],
                extractSemanticColorGroups(nodes), primitiveTokens, 1)

\* the end of transformColors: what it returns and the two files it writes
ColorsOutput(flatTokens, maps, cfg) ==
  [primitives |-> flatTokens,
   mappings |-> maps,
   files |-> { File(cfg.outputDir \o "/colors/colors.ts",
                    [i \in 1..Len(flatTokens) |->
                       Entry("primitiveColors", flatTokens[i].key,
                             "'" \o flatTokens[i].value \o "'")]),
               File(cfg.outputDir \o "/colors/colors.css",
                    [i \in 1..Len(flatTokens) |->
                       Entry(":root", buildCSSVar(cfg, "primitive", flatTokens[i].key),
                             flatTokens[i].value)]) }]

\* flatTokens = { ...flatTokens, ...hardcodedPrimitives }
WithHardcoded(flat, extracted, cfg) ==
  ColorsOutput(ObjAssign(flat, extracted.hardcodedPrimitives), extracted.mappings, cfg)

\* transformColors from the flattened primitive groups on
ColorsFromFlat(flat, nodes, cfg) ==
  CHOOSE result \in
    {WithHardcoded(flat, extracted, cfg) :
       extracted \in {extractHardcodedSemanticValues(nodes, flat)}} : TRUE

transformColors(nodes, cfg) ==
  CHOOSE result \in
    {ColorsFromFlat(flat, nodes, cfg) :
       flat \in {figmaFlattenTokens(
                   GroupNodes(nodes, <<"Green", "Greyscale", "Secondary", "Base">>))}} : TRUE

\* .replace(/([A-Z])/g, '-$1')
RECURSIVE UpperDash(_)
UpperDash(cs) ==
  IF cs = <<>> THEN <<>>
  ELSE (IF IsUpper(Head(cs)) THEN <<"-", Head(cs)>> ELSE <<Head(cs)>>) \o UpperDash(Tail(cs))

\* .replace(/(\d+)/g, '-$1')
RECURSIVE DigitRunDash(_, _)
DigitRunDash(cs, inRun) ==
  IF cs = <<>> THEN <<>>
  ELSE IF IsDigit(Head(cs))
       THEN (IF inRun THEN <<Head(cs)>> ELSE <<"-", Head(cs)>>) \o DigitRunDash(Tail(cs), TRUE)
       ELSE <<Head(cs)>> \o DigitRunDash(Tail(cs), FALSE)

\* .replace(/grey/i, 'grey')
ReplaceGrey(token) ==
  LET lower == ToLowerCase(token) IN
  IF ~Contains(lower, "grey") THEN token
  ELSE LET i == CHOOSE k \in 1..Len(lower) :
                  /\ SubSeq(lower, k, k + 3) = "grey"
                  /\ \A m \in 1..(k - 1) : SubSeq(lower, m, m + 3) # "grey"
       IN SubSeq(token, 1, i - 1) \o "grey" \o SubSeq(token, i + 4, Len(token))

\* the three candidate names of figmaRefToPrimitiveName
RefCandidates(group, token) ==
  << Str(CollapseDashes(Chars(
       ToLowerCase(group) \o "-"
         \o ToLowerCase(Str(DigitRunDash(UpperDash(Chars(token)), FALSE)))))),
     ToLowerCase(Str(LetterDigitDash(Chars(token)))),
     ToLowerCase(Str(LetterDigitDash(Chars(ReplaceGrey(token))))) >>

\* a reference without a second segment makes figmaRefToPrimitiveName throw
RefThrows(ref) == IsBraced(ref) /\ Len(Split(Chars(Slice1(ref)), ".")) < 2

\* the first candidate that is a primitive, Null when none is
FirstPrimitive(candidates, primitiveTokens) ==
  IF \A c \in 1..Len(candidates) : Falsy(ObjGet(primitiveTokens, candidates[c])) THEN Null
  ELSE candidates[CHOOSE c \in 1..Len(candidates) :
                    /\ ~Falsy(ObjGet(primitiveTokens, candidates[c]))
                    /\ \A h \in 1..(c - 1) : Falsy(ObjGet(primitiveTokens, candidates[h]))]

\* const [group, token] = match[1].split('.')
SegmentCandidates(segs) == RefCandidates(segs[1], segs[2])

\* a conversion that returns its first candidate without looking it up
figmaRefToPrimitiveNameUnchecked(ref, primitiveTokens) ==
  IF ~IsBraced(ref) THEN Null
  ELSE SegmentCandidates(Split(Chars(Slice1(ref)), "."))[1]

\* figmaRefToPrimitiveName: Null when no candidate is a primitive
figmaRefToPrimitiveName(ref, primitiveTokens) ==
  IF ~IsBraced(ref) THEN Null
  ELSE FirstPrimitive(SegmentCandidates(Split(Chars(Slice1(ref)), ".")), primitiveTokens)

\* the reverse lookup of transformSemanticColors: the mappings first, then the
\* primitives whose value has no entry yet
RECURSIVE ValueToPrimitive(_, _, _)
ValueToPrimitive(table, primitiveTokens, i) ==
  IF i > Len(primitiveTokens) THEN table
  ELSE ValueToPrimitive(
         IF Falsy(ObjGet(table, primitiveTokens[i].value))
         THEN ObjPut(table, primitiveTokens[i].value, primitiveTokens[i].key) ELSE table,
         primitiveTokens, i + 1)

\* processSemanticGroup over the leaves of one top-level group, in order
\* if (primitiveName) result[cleanedKey] = primitiveName
PutIfFound(result, cleanedKey, primitiveName) ==
  IF Falsy(primitiveName) THEN result ELSE ObjPut(result, cleanedKey, primitiveName)

RECURSIVE ProcessSemanticGroup(_, _, _, _, _, _)
ProcessSemanticGroup(result, leaves, i, primitiveTokens, valueToPrimitive, cfg) ==
  IF i > Len(leaves) THEN result
  ELSE CHOOSE rest \in
         {ProcessSemanticGroup(next, leaves, i + 1, primitiveTokens, valueToPrimitive, cfg) :
            next \in
              {PutIfFound(result,
                          reorderSemanticToken(
                            cleanTokenName(leaves[i].path[Len(leaves[i].path)]), cfg),
                          IF IsBraced(leaves[i].value)
                          THEN figmaRefToPrimitiveName(leaves[i].value, primitiveTokens)
                          ELSE ObjGet(valueToPrimitive, leaves[i].value))}} : TRUE

SemanticColorGroups == <<"Primary", "Text", "Brand", "System">>

\* the end of transformSemanticColors: what it returns and the two files it writes
SemanticOutput(semanticGroups, cfg) ==
  [semanticGroups |-> semanticGroups,
   files |-> { File(cfg.semanticDir \o "/colors/colors.ts",
                    Concat([g \in 1..Len(semanticGroups) |->
                      [i \in 1..Len(semanticGroups[g].value) |->
                         Entry(ToLowerCase(semanticGroups[g].key) \o "Colors",
                               semanticGroups[g].value[i].key,
                               "primitiveColors['" \o semanticGroups[g].value[i].value
                                 \o "']")]])),
               File(cfg.semanticDir \o "/colors/colors.css",
                    Concat([g \in 1..Len(semanticGroups) |->
                      [i \in 1..Len(semanticGroups[g].value) |->
                         Entry(":root",
                               buildCSSVar(cfg, "semantic", semanticGroups[g].value[i].key),
                               "var(" \o buildCSSVar(cfg, "primitive",
                                                     semanticGroups[g].value[i].value)
                                 \o ")")]])) }]

\* the loop over SEMANTIC_GROUPS, the reverse lookup being built
SemanticGroupsOf(present, nodes, primitiveTokens, valueToPrimitive, cfg) ==
  [g \in 1..Len(present) |->
     [key |-> present[g],
      value |-> ProcessSemanticGroup(<<>>, GroupNodes(nodes, <<present[g]>>), 1,
                                     primitiveTokens, valueToPrimitive, cfg)]]

transformSemanticColors(nodes, primitiveTokens, maps, cfg) ==
  CHOOSE result \in
    {SemanticOutput(
       SemanticGroupsOf(SelectSeq(SemanticColorGroups,
                                  LAMBDA g : \E i \in 1..Len(nodes) : nodes[i].path[1] = g),
                        nodes, primitiveTokens, valueToPrimitive, cfg),
       cfg) : valueToPrimitive \in {ValueToPrimitive(maps, primitiveTokens, 1)}} : TRUE

\* the leaves a Colors.json may hold, in document order
ColorSlots ==
  << [path |-> <<"Base", "black">>, values |-> {"#000000"}],
     [path |-> <<"Base", "white">>, values |-> {"#ffffff"}],
     [path |-> <<"Green", "green05">>, values |-> {"#00aa00"}],
     [path |-> <<"Secondary", "Brown", "brown00">>, values |-> {"#8b5e3c"}],
     [path |-> <<"Secondary", "Crimson", "crimson00">>, values |-> {"#990000"}],
     [path |-> <<"Secondary", "Ruby", "ruby00">>, values |-> {"#660022"}],
     [path |-> <<"Secondary", "Cherry", "cherry00">>, values |-> {"#cc0044"}],
     [path |-> <<"Primary", "primaryMain">>, values |-> {"{Green.green05}", "#00aa00"}],
     [path |-> <<"Text", "primaryBlackText">>, values |-> {"#000001", "{Base.black}"}],
     [path |-> <<"System", "Info", "main">>, values |-> {"#437dcf", "#000001"}],
     [path |-> <<"System", "Info", "light">>, values |-> {"#a3c4f5"}],
     [path |-> <<"System", "Error", "main">>, values |-> {"#d32f2f", "#437dcf"}] >>

\* the documents: every leaf absent or present with one of its values, slot k
\* onwards added to the documents of the slots before it
RECURSIVE ColorDocsFrom(_, _)
ColorDocsFrom(docs, k) ==
  IF k > Len(ColorSlots) THEN docs
  ELSE ColorDocsFrom(
         docs \cup {Append(d, Node(ColorSlots[k].path, v, "color")) :
                      d \in {e \in docs : Len(e) < MaxColors}, v \in ColorSlots[k].values},
         k + 1)

ColorDocs == ColorDocsFrom({<<>>}, 1)

\* transform-figma-tokens: Colors.json was read, main() runs next
InitFigma ==
  /\ parser = "figma"
  /\ pc = "colors"
  /\ config \in Configs
  /\ files = <<>>
  /\ artifacts = {}
  /\ colorsData \in ColorDocs
  /\ primitives = <<>>
  /\ mappings = <<>>
  /\ semanticColors = <<>>
  /\ suggestions = NoSuggestions
  /\ UniversalIdle
  /\ LegacyIdle
  /\ ClassifyIdle
  /\ DetectIdle

\* what transformColors leaves behind
ColorsReturned(r) ==
  /\ primitives' = r.primitives
  /\ mappings' = r.mappings
  /\ artifacts' = WriteFiles(artifacts, r.files)

\* what transformSemanticColors leaves behind
SemanticReturned(r) ==
  /\ semanticColors' = r.semanticGroups
  /\ artifacts' = WriteFiles(artifacts, r.files)

\* main: const { primitives, colorsData, mappings } = transformColors()
TransformColors ==
  /\ parser = "figma"
  /\ pc = "colors"
  /\ ColorsReturned(transformColors(colorsData, config))
  /\ pc' = "semantic"
  /\ UNCHANGED <<parser, config, files, colorsData, semanticColors, suggestions,
                 universalVars, legacyVars, classifyVars, detectVars>>

\* main: transformSemanticColors(colorsData, colorPrimitives, mappings); an
\* exception ends the script in the catch block before anything is written
TransformSemanticColors ==
  /\ parser = "figma"
  /\ pc = "semantic"
  /\ IF \E i \in 1..Len(colorsData) :
          /\ InSeq(colorsData[i].path[1], SemanticColorGroups)
          /\ RefThrows(colorsData[i].value)
     THEN /\ pc' = "failed"
          /\ UNCHANGED <<artifacts, semanticColors>>
     ELSE /\ SemanticReturned(transformSemanticColors(colorsData, primitives, mappings,
                                                     config))
          /\ pc' = "done"
  /\ UNCHANGED <<parser, config, files, colorsData, primitives, mappings, suggestions,
                 universalVars, legacyVars, classifyVars, detectVars>>

NextFigma == TransformColors \/ TransformSemanticColors

SpecFigma == InitFigma /\ [][NextFigma]_vars

-----------------------------------------------------------------------------
(* Figma transformer: the report of semantic suggestions *)

\* the UTF-16 code unit of a lower-case letter
CharCode(c) == 96 + CHOOSE i \in 1..26 : LowerChars[i] = c

\* a < b on strings: the first differing character decides, a proper prefix is less
RECURSIVE StrLt(_, _)
StrLt(a, b) ==
  IF b = "" THEN FALSE
  ELSE IF a = "" THEN TRUE
  ELSE IF SubSeq(a, 1, 1) # SubSeq(b, 1, 1)
       THEN CharCode(SubSeq(a, 1, 1)) < CharCode(SubSeq(b, 1, 1))
       ELSE StrLt(SubSeq(a, 2, Len(a)), SubSeq(b, 2, Len(b)))

\* a >= b on strings
StrGe(a, b) == ~StrLt(a, b)

\* analyzeSemanticCandidate: 'high', 'medium', 'low' or null
analyzeSemanticCandidate(name, tokenValue) ==
  IF classifyToken(name) = "primitive" THEN Null
  ELSE IF IsBraced(tokenValue) THEN "high"
  ELSE IF HasSemanticKeyword(name) THEN "medium"
  ELSE "low"

\* the object pushed for a leaf
Suggestion(node) ==
  [name |-> ToLowerCase(Join(node.path, "-")), value |-> node.value,
   path |-> Join(node.path, "."), isReference |-> IsBraced(node.value)]

\* analyzeGroup from leaf i on; sg = [high, medium, low]
RECURSIVE AnalyzeFrom(_, _, _, _)
AnalyzeFrom(sg, nodes, threshold, i) ==
  IF i > Len(nodes) THEN sg
  ELSE LET confidence == analyzeSemanticCandidate(ToLowerCase(Join(nodes[i].path, "-")),
                                                  nodes[i].value)
       IN AnalyzeFrom(
            IF confidence # Null /\ StrGe(confidence, threshold)
            THEN [sg EXCEPT ![confidence] = Append(@, Suggestion(nodes[i]))]
            ELSE sg,
            nodes, threshold, i + 1)

\* the bullet points of the report, section by section
ReportEntries(sg) ==
  [i \in 1..Len(sg.high) |-> Entry("High Confidence Suggestions", sg.high[i].name,
                                   sg.high[i].value)]
  \o [i \in 1..Len(sg.medium) |-> Entry("Medium Confidence Suggestions", sg.medium[i].name,
                                       sg.medium[i].value)]
  \o [i \in 1..Len(sg.low) |-> Entry("Low Confidence Suggestions", sg.low[i].name,
                                    sg.low[i].value)]

\* tokens.config.js with the semanticSuggestions block
SuggestConfig(enabled, threshold) ==
  [cssPrefix |-> [primitive |-> "primitive", semantic |-> ""],
   outputDir |-> "src/primitive-tokens", semanticDir |-> "src/semantic-tokens",
   transformations |-> [reorderSemanticTokens |-> FALSE, categoryKeywords |-> <<>>],
   generateSemantics |-> "suggest",
   semanticSuggestions |-> [enabled |-> enabled,
                            outputFile |-> ".claude/reports/semantic-suggestions.md",
                            confidenceThreshold |-> threshold]]

SuggestConfigs ==
  {SuggestConfig(TRUE, t) : t \in {"low", "medium", "high"}}
    \cup {SuggestConfig(FALSE, "medium")}

\* main: the transformations are done, generateSemantics is 'suggest'
InitSuggest ==
  /\ parser = "figma"
  /\ pc = "suggest"
  /\ config \in SuggestConfigs
  /\ files = <<>>
  /\ artifacts = {}
  /\ colorsData \in ColorDocs
  /\ primitives = <<>>
  /\ mappings = <<>>
  /\ semanticColors = <<>>
  /\ suggestions = NoSuggestions
  /\ UniversalIdle
  /\ LegacyIdle
  /\ ClassifyIdle
  /\ DetectIdle

\* generateSemanticSuggestions(colorsData, colorPrimitives)
GenerateSemanticSuggestions ==
  /\ parser = "figma"
  /\ pc = "suggest"
  /\ suggestions' =
       IF config.semanticSuggestions.enabled
       THEN AnalyzeFrom(NoSuggestions, colorsData,
                        config.semanticSuggestions.confidenceThreshold, 1)
       ELSE suggestions
  /\ artifacts' =
       IF config.semanticSuggestions.enabled
       THEN WriteFiles(artifacts,
                       {File(config.semanticSuggestions.outputFile,
                             ReportEntries(AnalyzeFrom(NoSuggestions, colorsData,
                                             config.semanticSuggestions.confidenceThreshold,
                                             1)))})
       ELSE artifacts
  /\ pc' = "done"
  /\ UNCHANGED <<parser, config, files, colorsData, primitives, mappings, semanticColors,
                 universalVars, legacyVars, classifyVars, detectVars>>

NextSuggest == GenerateSemanticSuggestions

SpecSuggest == InitSuggest /\ [][NextSuggest]_vars

-----------------------------------------------------------------------------
(* Reference chains, as the properties speak of them *)

HasReference(toks, i) == ~Falsy(toks[i].references)

\* the indices visited from token i: <<i, first hop, second hop, ...>>, at most n
\* hops; the path ends at a token without a reference, or with 0 when a
\* reference names no token of the map
RECURSIVE Path(_, _, _)
Path(toks, i, n) ==
  IF i = 0 \/ n = 0 \/ ~HasReference(toks, i) THEN <<i>>
  ELSE <<i>> \o Path(toks, MapIndex(toks, toks[i].references), n - 1)

\* hop k of the path p is a token that holds a literal
LiteralAt(toks, p, k) == k + 1 = Len(p) /\ p[k + 1] # 0 /\ ~HasReference(toks, p[k + 1])

\* hop k of the path p names a token that the map does not hold
MissingAt(p, k) == k + 1 = Len(p) /\ p[k + 1] = 0

\* the chain of token i never ends: it lies on a cycle or leads into one
Endless(toks, i) ==
  LET p == Path(toks, i, Len(toks) + 1)
  IN Len(p) = Len(toks) + 2 /\ p[Len(p)] # 0 /\ HasReference(toks, p[Len(p)])

WarnedAs(warns, kind, i) == \E w \in 1..Len(warns) : warns[w].kind = kind /\ warns[w].index = i

Warned(warns, i) == \E w \in 1..Len(warns) : warns[w].index = i

-----------------------------------------------------------------------------
(* Properties of the resolvers, checked under SpecResolve *)

\* C1: after one call of W3CParser.resolveReferences every token whose chain
\* reaches a literal within maxDepth hops holds that literal, the first token and
\* every intermediate one, and no warning was emitted for it.
C1_ChainResolved ==
  runs = 1 =>
    \A i \in 1..Len(allTokens) :
      LET p == Path(allTokens, i, maxDepth) IN
      \A k \in 1..maxDepth :
        LiteralAt(allTokens, p, k) =>
          /\ allTokens[i].value = allTokens[p[k + 1]].value
          /\ ~Warned(warnings, i)

\* a chain A -> B -> C with C literal was resolved: A and B both hold C's literal
C1_Witness ==
  /\ runs = 1
  /\ \E i \in 1..Len(allTokens) :
       LET p == Path(allTokens, i, maxDepth) IN
       /\ LiteralAt(allTokens, p, 2)
       /\ allTokens[i].value = allTokens[p[3]].value
       /\ allTokens[p[2]].value = allTokens[i].value
       /\ allTokens[i].value # allTokens[i].rawValue

\* C2: every token on a reference cycle, or whose chain leads into one, gets a
\* circular-reference warning naming it and keeps its value: no literal is assigned.
C2_CycleReported ==
  runs = 1 =>
    \A i \in 1..Len(allTokens) :
      Endless(allTokens, i) =>
        /\ \E w \in 1..Len(warnings) :
             warnings[w] = CircularWarning(allTokens[i].name, i)
        /\ allTokens[i].value = allTokens[i].rawValue

\* a self-reference, and a token that leads into a cycle it is not part of
C2_Witness ==
  /\ runs = 1
  /\ \E i, j \in 1..Len(allTokens) :
       /\ allTokens[i].references = allTokens[i].name
       /\ Endless(allTokens, i)
       /\ Endless(allTokens, j)
       /\ LET p == Path(allTokens, j, Len(allTokens) + 1)
          IN \A k \in 2..Len(p) : p[k] # j
       /\ WarnedAs(warnings, "circular", j)

\* C3 as stated: whenever the chain of a token ends at a name the map does not
\* hold, at whatever hop, an unresolved-reference warning is emitted, the token
\* keeps its raw value and gets no circular-reference warning.
C3_MissingAnyHop ==
  runs = 1 =>
    \A i \in 1..Len(allTokens) :
      LET p == Path(allTokens, i, Len(allTokens) + 1) IN
      \A k \in 1..(Len(allTokens) + 1) :
        MissingAt(p, k) =>
          /\ WarnedAs(warnings, "unresolved", i)
          /\ allTokens[i].value = allTokens[i].rawValue
          /\ ~WarnedAs(warnings, "circular", i)

\* C3 amended: a missing name reached within maxDepth hops gives an
\* unresolved-reference warning naming it and no circular-reference warning, and
\* the tokens after it in the list are still resolved; a missing name that lies
\* beyond maxDepth hops gives a circular-reference warning and no
\* unresolved-reference warning.  Either way the token keeps its raw value.
C3_MissingReference ==
  runs = 1 =>
    \A i \in 1..Len(allTokens) :
      LET p == Path(allTokens, i, Len(allTokens) + 1) IN
      \A k \in 1..(Len(allTokens) + 1) :
        MissingAt(p, k) =>
          /\ allTokens[i].value = allTokens[i].rawValue
          /\ IF k <= maxDepth
             THEN /\ \E w \in 1..Len(warnings) :
                       warnings[w] =
                         UnresolvedWarning(allTokens[p[k]].references, allTokens[i].name, i)
                  /\ ~WarnedAs(warnings, "circular", i)
                  /\ \A j \in (i + 1)..Len(allTokens) :
                       LET q == Path(allTokens, j, maxDepth) IN
                       \A h \in 1..maxDepth :
                         LiteralAt(allTokens, q, h) =>
                           allTokens[j].value = allTokens[q[h + 1]].value
             ELSE /\ WarnedAs(warnings, "circular", i)
                  /\ ~WarnedAs(warnings, "unresolved", i)

\* a missing name at the second hop, with a later token that was resolved
C3_Witness ==
  /\ runs = 1
  /\ \E i \in 1..Len(allTokens) :
       /\ MissingAt(Path(allTokens, i, maxDepth), 2)
       /\ WarnedAs(warnings, "unresolved", i)
       /\ \E j \in (i + 1)..Len(allTokens) :
            /\ LiteralAt(allTokens, Path(allTokens, j, maxDepth), 1)
            /\ allTokens[j].value # allTokens[j].rawValue

\* C4: a further run of either resolver on its own result changes no value and
\* no recorded reference target.
C4_Idempotent ==
  [][/\ (runs >= 1 /\ runs' = runs + 1) => allTokens' = allTokens
     /\ (legacyRuns >= 1 /\ legacyRuns' = legacyRuns + 1) => legacyTokens' = legacyTokens]_vars

-----------------------------------------------------------------------------
(* Properties of the pipelines, checked under Spec *)

EndsWith(str, sub) ==
  Len(sub) <= Len(str) /\ SubSeq(str, Len(str) - Len(sub) + 1, Len(str)) = sub

\* the value of an entry without the quotes of a TypeScript string literal
Unquoted(value) ==
  IF Len(value) >= 2 /\ StartsWith(value, "'") /\ EndsWith(value, "'")
  THEN SubSeq(value, 2, Len(value) - 1) ELSE value

\* C5: no entry of any file written by the universal parser holds a
\* brace-wrapped reference expression.
C5_EmittedValuesResolved ==
  parser = "universal" =>
  \A f \in artifacts :
    \A e \in 1..Len(f.entries) : ~IsReference(Unquoted(f.entries[e].value))

Names(toks) == {toks[i].name : i \in 1..Len(toks)}

\* the nodes of all files, in file-processing order
AllNodes == Concat(files)

\* C6: after deduplication there is exactly one token per distinct name, it is
\* the one met last in file-processing order, the number reported is the number
\* of parsed tokens minus the number of distinct names, and the step is always
\* taken: a collision does not stop the run.
C6_LastWins ==
  /\ (parser = "universal" /\ pc = "dedup") => ENABLED Deduplicate
  /\ (parser = "universal" /\ pc \in {"output", "done"}) =>
       /\ Names(dedupedTokens) = Names(allTokens)
       /\ Cardinality(Names(dedupedTokens)) = Len(dedupedTokens)
       /\ \A i \in 1..Len(dedupedTokens) :
            LET last == SetMax({j \in 1..Len(allTokens) :
                                  allTokens[j].name = dedupedTokens[i].name})
            IN /\ dedupedTokens[i] = allTokens[last]
               /\ dedupedTokens[i].rawValue = AllNodes[last].value
       /\ duplicatesRemoved = Len(allTokens) - Cardinality(Names(allTokens))

\* two files define the same name with different values; the later one was kept
C6_Witness ==
  /\ parser = "universal"
  /\ pc = "output"
  /\ Len(files) = 2
  /\ duplicatesRemoved = 1
  /\ \E i, j \in 1..Len(allTokens) :
       /\ i <= Len(files[1])
       /\ j > Len(files[1])
       /\ allTokens[i].name = allTokens[j].name
       /\ allTokens[i].value # allTokens[j].value
       /\ \E d \in 1..Len(dedupedTokens) : dedupedTokens[d] = allTokens[j]

\* the file of the given level ("primitive" or "semantic") and extension that
\* lists the name
EmittedIn(level, ext, name) ==
  \E f \in artifacts :
    /\ StartsWith(f.path, "src/" \o level \o "-tokens/")
    /\ EndsWith(f.path, ext)
    /\ \E e \in 1..Len(f.entries) : f.entries[e].name = name

\* C7: in both scripts a token that carries a reference is classified semantic,
\* except that a dimension token whose reference target is a dimension token is
\* classified primitive.
C7_DimensionException ==
  /\ (parser = "universal" /\ pc = "done") =>
       \A i \in 1..Len(dedupedTokens) :
         LET t == dedupedTokens[i]
             j == MapIndex(dedupedTokens, t.references)
         IN (~Falsy(t.references) /\ ~t.isLegacy) =>
              IF t.type = "dimension" /\ j # 0 /\ dedupedTokens[j].type = "dimension"
              THEN EmittedIn("primitive", ".ts", t.name)
                   /\ ~EmittedIn("semantic", ".ts", t.name)
              ELSE EmittedIn("semantic", ".ts", t.name)
                   /\ ~EmittedIn("primitive", ".ts", t.name)
  /\ (parser = "legacy" /\ pc = "done") =>
       \A i \in 1..Len(legacyTokens) :
         LET t == legacyTokens[i]
             j == KeyIndex(legacyTokens, t.references)
         IN ~Falsy(t.references) =>
              IF t.type = "dimension" /\ j # 0 /\ legacyTokens[j].type = "dimension"
              THEN EmittedIn("primitive", ".ts", toTypeScriptName(t.name))
              ELSE ~EmittedIn("primitive", ".ts", toTypeScriptName(t.name))

\* var(--<primitive custom property>) with the configured primitive prefix
IsPrimitiveVar(value, cfg) ==
  LET open == IF ~Falsy(cfg.cssPrefix.primitive)
              THEN "var(--" \o cfg.cssPrefix.primitive \o "-" ELSE "var(--"
  IN StartsWith(value, open) /\ EndsWith(value, ")") /\ Len(value) > Len(open) + 1

\* C9: every entry of every semantic stylesheet written is a var(--...)
\* reference to a primitive custom property.
C9_SemanticEntriesAreVars ==
  \A f \in artifacts :
    (StartsWith(f.path, "src/semantic-tokens/") /\ EndsWith(f.path, ".css")) =>
      \A e \in 1..Len(f.entries) : IsPrimitiveVar(f.entries[e].value, config)

-----------------------------------------------------------------------------
(* Property of classifyToken, checked under SpecClassify *)

\* C8: a name that matches a primitive pattern is primitive even when it holds
\* a semantic keyword; otherwise a name whose lowercased form holds a semantic
\* keyword is semantic; otherwise the name is primitive exactly when it ends in
\* digits.
C8_RuleOrder ==
  pc = "classified" =>
    /\ MatchesPrimitivePattern(tokenName) => classification = "primitive"
    /\ (~MatchesPrimitivePattern(tokenName) /\ HasSemanticKeyword(tokenName)) =>
         classification = "semantic"
    /\ (~MatchesPrimitivePattern(tokenName) /\ ~HasSemanticKeyword(tokenName)) =>
         /\ classification \in {"primitive", "semantic"}
         /\ classification = "primitive" <=> EndsInDigits(tokenName)

\* a name that matches a primitive pattern and holds a semantic keyword
C8_Witness ==
  /\ pc = "classified"
  /\ tokenName = "primary-100"
  /\ HasSemanticKeyword(tokenName)
  /\ classification = "primitive"

-----------------------------------------------------------------------------
(* Properties of the Figma colour transformer *)

\* the value a semantic leaf has in Colors.json: its literal, or the value of
\* the token it names
DeclaredValue(nodes, value) ==
  IF IsBraced(value) THEN NodeValue(nodes, Split(Chars(Slice1(value)), ".")) ELSE value

\* C10: every semantic colour token of the output references a primitive whose
\* value equals the token's own value in the source, the literal hex it
\* declared or the value of the token it referenced
C10_RoundTrip ==
  (parser = "figma" /\ pc = "done") =>
    \A g \in 1..Len(semanticColors) :
      \A t \in 1..Len(semanticColors[g].value) :
        \E i \in 1..Len(colorsData) :
          /\ colorsData[i].path[1] = semanticColors[g].key
          /\ reorderSemanticToken(cleanTokenName(colorsData[i].path[Len(colorsData[i].path)]),
                                  config) = semanticColors[g].value[t].key
          /\ DeclaredValue(colorsData, colorsData[i].value)
               = ObjGet(primitives, semanticColors[g].value[t].value)

\* a leaf of a semantic colour group that holds a literal instead of a reference
HardcodedSemantic(n) == InSeq(n.path[1], SemanticColorGroups) /\ ~IsBraced(n.value)

\* the name under which transformSemanticColors would emit a leaf
EmittedKey(n) == reorderSemanticToken(cleanTokenName(n.path[Len(n.path)]), config)

\* the tokens emitted for one semantic group, none when the group was not emitted
GroupOutput(group) ==
  IF ObjIndex(semanticColors, group) = 0 THEN <<>> ELSE ObjGet(semanticColors, group)

\* the primitives known before synthesis: the flattened primitive groups
KnownPrimitives ==
  figmaFlattenTokens(GroupNodes(colorsData, <<"Green", "Greyscale", "Secondary", "Base">>))

\* C11: every hardcoded colour of an emitted semantic group has a mapping entry
\* to a primitive and appears in the semantic output pointing at that
\* primitive; none is left unmapped or dropped
C11_HardcodedMapped ==
  (parser = "figma" /\ pc = "done") =>
    \A i \in 1..Len(colorsData) :
      HardcodedSemantic(colorsData[i]) =>
        /\ ObjIndex(mappings, colorsData[i].value) # 0
        /\ ObjIndex(primitives, ObjGet(mappings, colorsData[i].value)) # 0
        /\ ObjGet(GroupOutput(colorsData[i].path[1]), EmittedKey(colorsData[i]))
             = ObjGet(mappings, colorsData[i].value)

\* a hardcoded leaf of the groups the synthesizer looks at
Synthesizable(n) == InSeq(n.path[1], <<"Text", "System">>) /\ ~IsBraced(n.value)

\* C12: a hardcoded semantic colour (of the groups the synthesizer looks at)
\* whose nearest known primitive is within the distance threshold, the bound
\* included, is mapped onto that primitive and no new primitive is created for
\* it, whatever the other colours of its group are
C12_CloseColourMapped ==
  (parser = "figma" /\ pc \in {"semantic", "done"}) =>
    \A known \in {KnownPrimitives} : \A i \in 1..Len(colorsData) :
      (/\ Synthesizable(colorsData[i])
       /\ findClosestPrimitive(colorsData[i].value, known, maxColorDistance)
            # NoPrimitive) =>
        /\ ObjGet(mappings, colorsData[i].value)
             = findClosestPrimitive(colorsData[i].value, known, maxColorDistance).name
        /\ \A k \in 1..Len(primitives) :
             primitives[k].value = colorsData[i].value =>
               ObjIndex(known, primitives[k].key) # 0

\* the groups of hardcoded colours the synthesizer works on, in its order
SynthGroups == extractSemanticColorGroups(colorsData)

\* a group gets a palette when one of its colours has no close known primitive
NeedsSynthesis(colors, known) ==
  \E i \in 1..Len(colors) :
    findClosestPrimitive(colors[i].value, known, maxColorDistance) = NoPrimitive

FirstSegment(key) == Split(Chars(key), "-")[1]

\* F-00, F-01, ...: two decimal digits
ScaleName(F, k) == F \o "-" \o NatStr(k \div 10) \o NatStr(k % 10)

\* lightness of a six-digit hex colour, doubled
RgbLightness(rgb) == Max3(rgb.r, rgb.g, rgb.b) + Min3(rgb.r, rgb.g, rgb.b)

HexLightness(hex) == RgbLightness(hexToRgb(hex))

\* the primitives F-00 .. F-(n-1) are new, are the only ones of family F, hold
\* the colours of the group, one each, and go from light to dark
Registered(colors, F, known) ==
  /\ \A k \in 0..(Len(colors) - 1) :
       /\ ObjIndex(primitives, ScaleName(F, k)) # 0
       /\ ObjIndex(known, ScaleName(F, k)) = 0
  /\ \A k \in 1..Len(primitives) :
       FirstSegment(primitives[k].key) = F =>
         \E j \in 0..(Len(colors) - 1) : primitives[k].key = ScaleName(F, j)
  /\ \A i \in 1..Len(colors) :
       Cardinality({j \in 1..Len(colors) : colors[j].value = colors[i].value})
         = Cardinality({k \in 0..(Len(colors) - 1) :
                          ObjGet(primitives, ScaleName(F, k)) = colors[i].value})
  /\ \A k \in 0..(Len(colors) - 2) :
       HexLightness(ObjGet(primitives, ScaleName(F, k)))
         >= HexLightness(ObjGet(primitives, ScaleName(F, k + 1)))

\* the groups that need a palette
SynthesizedGroups(groups, known) ==
  {g \in 1..Len(groups) : NeedsSynthesis(groups[g].value, known)}

RegisteredUnderSomeName(groups, known) ==
  \A g \in SynthesizedGroups(groups, known) :
    \E k \in 1..Len(primitives) :
      Registered(groups[g].value, FirstSegment(primitives[k].key), known)

\* C13: every group of n hardcoded colours that needs palette
\* synthesis has, under some family name F, exactly n new primitives F-00 ..
\* F-(n-1), one per colour of the group with its value, lightest first
C13_PaletteRegistered ==
  (parser = "figma" /\ pc \in {"semantic", "done"}) =>
    \A groups \in {SynthGroups} : \A known \in {KnownPrimitives} :
      RegisteredUnderSomeName(groups, known)

-----------------------------------------------------------------------------
(* Properties of the Figma name functions *)

NameParts(name) == Split(Chars(name), "-")

CategoryKeywords == config.transformations.categoryKeywords

\* the name with segment i moved to the front
MovedToFront(parts, i) ==
  Join(<<parts[i]>> \o SubSeq(parts, 1, i - 1) \o SubSeq(parts, i + 1, Len(parts)), "-")

\* segment i is a category keyword, not the first segment, at its first occurrence
MovableKeyword(parts, i, keywords) ==
  /\ i > 1
  /\ InSeq(parts[i], keywords)
  /\ \A j \in 1..(i - 1) : parts[j] # parts[i]

Reordered(parts, keywords, before, after) ==
  IF InSeq(parts[1], keywords) \/ \A i \in 1..Len(parts) : ~InSeq(parts[i], keywords)
  THEN after = before
  ELSE \E i \in 1..Len(parts) :
         MovableKeyword(parts, i, keywords) /\ after = MovedToFront(parts, i)

\* C14: with reordering enabled a category keyword that is a segment other
\* than the first is moved, at its first occurrence, to the front and the other
\* segments keep their order; a name whose first segment is a category keyword,
\* or that has no category keyword, is returned unchanged; with reordering
\* disabled every name is returned unchanged
C14_KeywordToFront ==
  (parser = "figma" /\ pc = "named") =>
    IF config.transformations.reorderSemanticTokens
    THEN Reordered(NameParts(cleanedName), CategoryKeywords, cleanedName, reorderedName)
    ELSE reorderedName = cleanedName

IsLetter(c) == IsLower(c) \/ IsUpper(c)

\* a hyphen goes between a lowercase and an uppercase letter and between a
\* letter and a digit; an ampersand becomes a hyphen
RECURSIVE HyphenateBoundaries(_)
HyphenateBoundaries(cs) ==
  IF cs = <<>> THEN <<>>
  ELSE LET c == IF cs[1] = "&" THEN "-" ELSE cs[1] IN
       IF Len(cs) >= 2 /\ (\/ IsLower(cs[1]) /\ IsUpper(cs[2])
                           \/ IsLetter(cs[1]) /\ IsDigit(cs[2]))
       THEN <<c, "-">> \o HyphenateBoundaries(Tail(cs))
       ELSE <<c>> \o HyphenateBoundaries(Tail(cs))

\* the leading wrapper segment goes when there are at least three segments
WithoutWrapper(parts) ==
  IF Len(parts) >= 3 /\ ToLowerCase(parts[1]) = "secondary" THEN Tail(parts) ELSE parts

SharePrefix(a, b) ==
  \/ \E n \in 4..Min(Len(a), Len(b)) : SubSeq(a, 1, n) = SubSeq(b, 1, n)
  \/ Len(a) <= Len(b) /\ SubSeq(b, 1, Len(a)) = a
  \/ Len(b) <= Len(a) /\ SubSeq(a, 1, Len(b)) = b

\* the first segment goes when it repeats the second
WithoutRepeat(parts) ==
  IF Len(parts) >= 2 /\ SharePrefix(ToLowerCase(parts[1]), ToLowerCase(parts[2]))
  THEN Tail(parts) ELSE parts

CleanedAsDescribed(raw) ==
  ToLowerCase(Str(HyphenateBoundaries(
    Chars(Join(WithoutRepeat(WithoutWrapper(NameParts(raw))), "-")))))

\* C15: the cleaned name is the raw name without its leading wrapper segment
\* (three segments or more), without its first segment when the first two
\* segments share a prefix of four characters or one is a prefix of the other,
\* with a hyphen at every camelCase boundary, at every letter-digit boundary
\* and for every ampersand, in lowercase
C15_CleanName ==
  (parser = "figma" /\ pc \in {"reorder", "named"}) =>
    cleanedName = CleanedAsDescribed(tokenName)

-----------------------------------------------------------------------------
(* Properties of the output step of the universal parser, checked under SpecOutput *)

\* the names under which a token is listed: the key of the export object and
\* the custom property with the prefix of either tier
ListedNames(name) ==
  {name, "--" \o name, "--" \o config.cssPrefix.primitive \o "-" \o name,
   "--" \o config.cssPrefix.semantic \o "-" \o name}

Lists(f, name) == \E e \in 1..Len(f.entries) : f.entries[e].name \in ListedNames(name)

\* the files written that list the token
ArtifactsOf(token) == {f \in artifacts : Lists(f, token.name)}

IsLegacyArtifact(path) == EndsWith(path, ".legacy.css") \/ EndsWith(path, ".legacy.ts")

TierOf(token) == IF IsSemanticToken(dedupedTokens, token) THEN "semantic" ELSE "primitive"

GroupDir(tier, group) == "src/" \o tier \o "-tokens/" \o group \o "/"

\* C16: a token flagged isLegacy is listed only in legacy-suffixed files of
\* the directory of its tier and group, and a token that is not flagged is
\* listed only in files of that directory without the legacy suffix
C16_LegacySeparated ==
  (parser = "universal" /\ pc = "done") =>
    \A i \in 1..Len(dedupedTokens) :
      \A f \in ArtifactsOf(dedupedTokens[i]) :
        /\ IsLegacyArtifact(f.path) <=> dedupedTokens[i].isLegacy
        /\ StartsWith(f.path, GroupDir(TierOf(dedupedTokens[i]), GroupOf(dedupedTokens[i])))

\* a legacy and an active token of one tier and group were written, each to its
\* own files
C16_Witness ==
  /\ parser = "universal"
  /\ pc = "done"
  /\ \E i, j \in 1..Len(dedupedTokens) :
       /\ dedupedTokens[i].isLegacy
       /\ ~dedupedTokens[j].isLegacy
       /\ TierOf(dedupedTokens[i]) = TierOf(dedupedTokens[j])
       /\ GroupOf(dedupedTokens[i]) = GroupOf(dedupedTokens[j])
       /\ ArtifactsOf(dedupedTokens[i]) # {}
       /\ ArtifactsOf(dedupedTokens[j]) # {}
       /\ ArtifactsOf(dedupedTokens[i]) \cap ArtifactsOf(dedupedTokens[j]) = {}

\* the stylesheet and the module of one tier, one group, main or legacy
ArtifactPair(tier, group, suffix) ==
  {GroupDir(tier, group) \o group \o suffix \o ".css",
   GroupDir(tier, group) \o group \o suffix \o ".ts"}

ArtifactPairs ==
  {ArtifactPair(tier, group, suffix) :
     tier \in {"primitive", "semantic"}, group \in Range(GroupNames),
     suffix \in {"", ".legacy"}}

ListedOnce(f, name) ==
  Cardinality({e \in 1..Len(f.entries) : f.entries[e].name \in ListedNames(name)}) = 1

\* C17: every token that survives deduplication is listed, once, in the two
\* files of exactly one artifact pair (one tier, one group, main or legacy)
C17_WrittenOnce ==
  (parser = "universal" /\ pc = "done") =>
    \A i \in 1..Len(dedupedTokens) :
      /\ {f.path : f \in ArtifactsOf(dedupedTokens[i])} \in ArtifactPairs
      /\ \A f \in ArtifactsOf(dedupedTokens[i]) : ListedOnce(f, dedupedTokens[i].name)

\* three tokens survived deduplication, one for the group of the other types,
\* and went to three different pairs
C17_Witness ==
  /\ parser = "universal"
  /\ pc = "done"
  /\ Len(dedupedTokens) = 3
  /\ \E i \in 1..Len(dedupedTokens) : GroupOf(dedupedTokens[i]) = "other"
  /\ Cardinality({ {f.path : f \in ArtifactsOf(dedupedTokens[i])} :
                   i \in 1..Len(dedupedTokens) }) = 3
  /\ Cardinality(artifacts) = 6

-----------------------------------------------------------------------------
(* parseTokenFiles, first pass: JSON documents, format detection, shape parsers *)

\* a JSON value: its kind, the text of a scalar, the members of an object or of
\* an array (an array has the keys "0", "1", ...)
Member(key, value) == [key |-> key, value |-> value]

JNull == [kind |-> "null", text |-> "null", members |-> <<>>]
JTrue == [kind |-> "boolean", text |-> "true", members |-> <<>>]
JNum(digits) == [kind |-> "number", text |-> digits, members |-> <<>>]
JStr(s) == [kind |-> "string", text |-> s, members |-> <<>>]
JObj(members) == [kind |-> "object", text |-> "", members |-> members]
JArr(items) ==
  [kind |-> "array", text |-> "",
   members |-> [i \in 1..Len(items) |-> Member(NatStr(i - 1), items[i])]]

\* the value undefined
Undefined == [kind |-> "undefined", text |-> "", members |-> <<>>]

\* value && typeof value === 'object'
IsObject(v) == v.kind \in {"object", "array"}

\* key in value
HasKey(v, key) == \E i \in 1..Len(v.members) : v.members[i].key = key

\* value[key]
GetKey(v, key) ==
  IF HasKey(v, key)
  THEN v.members[CHOOSE i \in 1..Len(v.members) : v.members[i].key = key].value
  ELSE Undefined

\* a value that counts as false
JFalsy(v) ==
  \/ v.kind \in {"undefined", "null"}
  \/ v.kind = "string" /\ v.text = ""
  \/ v.kind = "number" /\ v.text = "0"
  \/ v.kind = "boolean" /\ v.text = "false"

\* Object.entries(data) for a value that is not null
Entries(v) ==
  IF IsObject(v) THEN v.members
  ELSE IF v.kind = "string"
       THEN [i \in 1..Len(v.text) |-> Member(NatStr(i - 1), JStr(SubSeq(v.text, i, i)))]
       ELSE <<>>

\* JSON.stringify(data)
RECURSIVE Stringify(_)
RECURSIVE StringifyFrom(_, _)
StringifyFrom(v, i) ==
  IF i > Len(v.members) THEN ""
  ELSE (IF i > 1 THEN "," ELSE "")
         \o (IF v.kind = "object" THEN "\"" \o v.members[i].key \o "\":" ELSE "")
         \o Stringify(v.members[i].value)
         \o StringifyFrom(v, i + 1)

Stringify(v) ==
  IF v.kind = "string" THEN "\"" \o v.text \o "\""
  ELSE IF v.kind = "object" THEN "{" \o StringifyFrom(v, 1) \o "}"
  ELSE IF v.kind = "array" THEN "[" \o StringifyFrom(v, 1) \o "]"
  ELSE v.text

\* the index of the first brace after position i, 0 when there is none
NextBrace(cs, i) ==
  IF \E j \in (i + 1)..Len(cs) : cs[j] \in {"{", "}"}
  THEN CHOOSE j \in (i + 1)..Len(cs) :
         cs[j] \in {"{", "}"} /\ \A k \in (i + 1)..(j - 1) : cs[k] \notin {"{", "}"}
  ELSE 0

\* an opening brace whose next brace closes it: a match of /\{[^{}]*\}/
OpensGroup(cs, i) == cs[i] = "{" /\ NextBrace(cs, i) # 0 /\ cs[NextBrace(cs, i)] = "}"

\* str.replace(/\{[^{}]*\}/g, ''): the leftmost match is cut out, the search
\* goes on behind it
RECURSIVE RemoveBraceGroups(_)
RemoveBraceGroups(cs) ==
  IF \A i \in 1..Len(cs) : ~OpensGroup(cs, i) THEN cs
  ELSE LET first == CHOOSE i \in 1..Len(cs) :
                      OpensGroup(cs, i) /\ \A k \in 1..(i - 1) : ~OpensGroup(cs, k)
       IN SubSeq(cs, 1, first - 1)
            \o RemoveBraceGroups(SubSeq(cs, NextBrace(cs, first) + 1, Len(cs)))

\* /\{[^}]+\}/.test(str)
HasBraceGroup(cs) ==
  \E i \in 1..Len(cs) :
    /\ cs[i] = "{"
    /\ i + 1 <= Len(cs)
    /\ cs[i + 1] # "}"
    /\ \E j \in (i + 2)..Len(cs) : cs[j] = "}"

hasW3CFormat(data) ==
  \/ Contains(Stringify(data), "\"$type\"")
  \/ Contains(Stringify(data), "\"$value\"")
  \/ HasBraceGroup(RemoveBraceGroups(Chars(Stringify(data))))

hasTokensStudioFormat(data) ==
  /\ Contains(Stringify(data), "\"type\":\"")
  /\ \/ Contains(Stringify(data), "\"value\":")
     \/ Contains(Stringify(data), "\"$value\":")

\* Object.values(data)[0]
FirstValue(data) == IF Entries(data) = <<>> THEN Undefined ELSE Entries(data)[1].value

\* Object.values(null) throws a TypeError
ObjectValuesThrows(data) == data.kind = "null"

hasStyleDictionaryFormat(data) ==
  /\ IsObject(FirstValue(data))
  /\ HasKey(FirstValue(data), "value")
  /\ HasKey(FirstValue(data), "type")

hasSimpleFormat(data) ==
  \A i \in 1..Len(Entries(data)) :
    \/ Entries(data)[i].value.kind \in {"string", "number"}
    \/ /\ IsObject(Entries(data)[i].value)
       /\ ~HasKey(Entries(data)[i].value, "$type")
       /\ ~HasKey(Entries(data)[i].value, "type")

\* /^#[0-9A-Fa-f]{6}$/
IsHex6(str) ==
  Len(str) = 7 /\ SubSeq(str, 1, 1) = "#"
    /\ \A i \in 2..7 : IsHexChar(SubSeq(str, i, i))

\* /^\d+px$/
IsPx(str) ==
  Len(str) >= 3 /\ EndsWith(str, "px") /\ AllDigits(Chars(SubSeq(str, 1, Len(str) - 2)))

\* /^rgba?\(/
IsRgbCall(str) == StartsWith(str, "rgb(") \/ StartsWith(str, "rgba(")

\* Object.keys(data)[0]?.toLowerCase() || ''
FirstKey(data) == IF Entries(data) = <<>> THEN "" ELSE ToLowerCase(Entries(data)[1].key)

\* the last part of detectSimpleCategory: detection by the first value
CategoryByValue(firstValue) ==
  IF firstValue.kind # "string" THEN "unknown"
  ELSE IF IsHex6(firstValue.text) THEN "color"
  ELSE IF IsPx(firstValue.text) THEN "spacing"
  ELSE IF IsRgbCall(firstValue.text) THEN "color"
  ELSE "unknown"

\* the middle part of detectSimpleCategory: detection by the first key
CategoryByKey(firstKey, firstValue) ==
  IF Contains(firstKey, "color") \/ Contains(firstKey, "bg") \/ Contains(firstKey, "text")
  THEN "color"
  ELSE IF Contains(firstKey, "spacing") \/ Contains(firstKey, "gap")
            \/ Contains(firstKey, "margin")
       THEN "spacing"
       ELSE CategoryByValue(firstValue)

CategoryByName(name, firstKey, firstValue) ==
  IF Contains(name, "color") THEN "color"
  ELSE IF Contains(name, "spacing") \/ Contains(name, "space") THEN "spacing"
  ELSE IF Contains(name, "typography") \/ Contains(name, "font") THEN "typography"
  ELSE IF Contains(name, "radius") \/ Contains(name, "border") THEN "radius"
  ELSE IF Contains(name, "shadow") \/ Contains(name, "elevation") THEN "shadow"
  ELSE CategoryByKey(firstKey, firstValue)

detectSimpleCategory(data, file) ==
  CategoryByName(ToLowerCase(file), FirstKey(data), FirstValue(data))

Detection(format, category) == [format |-> format, category |-> category]

\* the call did not return: a TypeError was thrown
Thrown == Detection("TypeError", Null)

detectTokenFormat(tokenData, file) ==
  IF hasW3CFormat(tokenData) THEN Detection("w3c", Null)
  ELSE IF hasTokensStudioFormat(tokenData) THEN Detection("tokens-studio", Null)
  ELSE IF ObjectValuesThrows(tokenData) THEN Thrown
  ELSE IF hasStyleDictionaryFormat(tokenData) THEN Detection("style-dictionary", Null)
  ELSE IF hasSimpleFormat(tokenData)
       THEN Detection("simple", detectSimpleCategory(tokenData, file))
       ELSE Detection("unknown", Null)

\* new StandardToken(name, value, type, { originalPath, isLegacy })
ParsedToken(name, value, type, path, isLegacy) ==
  [name |-> name, value |-> value, type |-> type, originalPath |-> path,
   isLegacy |-> isLegacy,
   references |-> IF value.kind = "string" /\ IsReference(value.text)
                  THEN ReferenceTarget(value.text) ELSE Null]

\* value.$type || 'unknown'
OrUnknown(type) == IF JFalsy(type) THEN JStr("unknown") ELSE type

\* W3CParser.flattenTokens(obj, path, result): the tokens pushed for the entries
\* from i on
RECURSIVE W3CFlattenFrom(_, _, _)
W3CFlattenEntry(key, value, currentPath) ==
  IF StartsWith(key, "$") THEN <<>>
  ELSE IF IsObject(value) /\ (HasKey(value, "$value") \/ HasKey(value, "$type"))
       THEN <<ParsedToken(TokenName(currentPath), GetKey(value, "$value"),
                          OrUnknown(GetKey(value, "$type")), currentPath,
                          IsLegacyPath(currentPath))>>
       ELSE IF IsObject(value) THEN W3CFlattenFrom(Entries(value), currentPath, 1)
       ELSE <<>>

W3CFlattenFrom(entries, path, i) ==
  IF i > Len(entries) THEN <<>>
  ELSE W3CFlattenEntry(entries[i].key, entries[i].value, Append(path, entries[i].key))
         \o W3CFlattenFrom(entries, path, i + 1)

\* currentPath.join('-').replace(/[^a-zA-Z0-9-]/g, '-')
DashedName(path) ==
  Str([i \in 1..Len(Join(path, "-")) |->
         LET c == SubSeq(Join(path, "-"), i, i) IN
         IF IsLower(c) \/ IsUpper(c) \/ IsDigit(c) \/ c = "-" THEN c ELSE "-"])

typeMap ==
  <<Member("color", "color"), Member("sizing", "dimension"), Member("spacing", "dimension"),
    Member("borderRadius", "dimension"), Member("borderWidth", "dimension"),
    Member("fontSize", "dimension"), Member("fontFamily", "fontFamily"),
    Member("fontWeight", "fontWeight")>>

\* TokensStudioParser.normalizeType: typeMap[type] || type
normalizeType(type) ==
  IF type.kind = "string" /\ ObjIndex(typeMap, type.text) # 0
  THEN JStr(ObjGet(typeMap, type.text)) ELSE type

\* TokensStudioParser.extractTokens
RECURSIVE TokensStudioFrom(_, _, _)
TokensStudioEntry(value, currentPath) ==
  IF IsObject(value) /\ (HasKey(value, "value") \/ HasKey(value, "type"))
  THEN <<ParsedToken(DashedName(currentPath), GetKey(value, "value"),
                     normalizeType(GetKey(value, "type")), currentPath, FALSE)>>
  ELSE IF IsObject(value) THEN TokensStudioFrom(Entries(value), currentPath, 1)
  ELSE <<>>

TokensStudioFrom(entries, path, i) ==
  IF i > Len(entries) THEN <<>>
  ELSE TokensStudioEntry(entries[i].value, Append(path, entries[i].key))
         \o TokensStudioFrom(entries, path, i + 1)

\* StyleDictionaryParser.extractTokens
RECURSIVE StyleDictionaryFrom(_, _, _)
StyleDictionaryEntry(value, currentPath) ==
  IF IsObject(value) /\ HasKey(value, "value")
  THEN <<ParsedToken(DashedName(currentPath), GetKey(value, "value"),
                     OrUnknown(GetKey(value, "type")), currentPath, FALSE)>>
  ELSE IF IsObject(value) THEN StyleDictionaryFrom(Entries(value), currentPath, 1)
  ELSE <<>>

StyleDictionaryFrom(entries, path, i) ==
  IF i > Len(entries) THEN <<>>
  ELSE StyleDictionaryEntry(entries[i].value, Append(path, entries[i].key))
         \o StyleDictionaryFrom(entries, path, i + 1)

\* SimpleParser.inferType
inferType(value, category) ==
  IF category = "color" THEN "color"
  ELSE IF category \in {"spacing", "radius", "typography"} THEN "dimension"
  ELSE IF value.kind # "string" THEN "unknown"
  ELSE IF IsHex6(value.text) THEN "color"
  ELSE IF IsPx(value.text) THEN "dimension"
  ELSE IF IsRgbCall(value.text) THEN "color"
  ELSE "unknown"

\* SimpleParser.extractTokens
RECURSIVE SimpleFrom(_, _, _, _)
SimpleEntry(value, currentPath, category) ==
  IF value.kind \in {"string", "number"}
  THEN <<ParsedToken(DashedName(currentPath), value, JStr(inferType(value, category)),
                     currentPath, FALSE)>>
  ELSE IF IsObject(value) THEN SimpleFrom(Entries(value), currentPath, category, 1)
  ELSE <<>>

SimpleFrom(entries, path, category, i) ==
  IF i > Len(entries) THEN <<>>
  ELSE SimpleEntry(entries[i].value, Append(path, entries[i].key), category)
         \o SimpleFrom(entries, path, category, i + 1)

\* the switch on detection.format
ParseWith(detected, data) ==
  IF detected.format = "w3c" THEN W3CFlattenFrom(Entries(data), <<>>, 1)
  ELSE IF detected.format = "tokens-studio" THEN TokensStudioFrom(Entries(data), <<>>, 1)
  ELSE IF detected.format = "style-dictionary"
       THEN StyleDictionaryFrom(Entries(data), <<>>, 1)
  ELSE IF detected.format = "simple"
       THEN SimpleFrom(Entries(data), <<>>, detected.category, 1)
       ELSE SimpleFrom(Entries(data), <<>>, "unknown", 1)

MaxDepth == 3

Scalars == {JStr("#ff0000"), JStr("{a.b}"), JNum("4"), JTrue, JNull}

\* the markers a node of a token tree may carry
MarkerSets ==
  { <<>>,
    <<Member("$value", JStr("#ff0000"))>>,
    <<Member("$value", JStr("{a.b}"))>>,
    <<Member("$type", JStr("color"))>>,
    <<Member("$value", JStr("#ff0000")), Member("$type", JStr("color"))>>,
    <<Member("value", JStr("#ff0000"))>>,
    <<Member("type", JStr("color"))>>,
    <<Member("value", JStr("#ff0000")), Member("type", JStr("color"))>>,
    <<Member("value", JNum("4")), Member("type", JNum("4"))>> }

\* JSON values of nesting depth at most n: a scalar, an object made of markers
\* and at most one child, or an array of one item
RECURSIVE Trees(_)
Trees(n) ==
  IF n = 0 THEN Scalars
  ELSE Trees(n - 1)
         \cup {JObj(markers) : markers \in MarkerSets}
         \cup {JObj(Append(markers, Member("a", child))) :
                 markers \in MarkerSets, child \in Trees(n - 1)}
         \cup {JArr(<<item>>) : item \in Trees(n - 1)}

Filenames == {"tokens.json", "colors.json"}

InitDetect ==
  /\ parser = "universal"
  /\ pc = "detect"
  /\ config = Config("primitive", "")
  /\ files = <<>>
  /\ artifacts = {}
  /\ document \in Trees(MaxDepth)
  /\ filename \in Filenames
  /\ detection = [format |-> Null, category |-> Null]
  /\ parsedTokens = <<>>
  /\ UniversalIdle
  /\ LegacyIdle
  /\ ClassifyIdle
  /\ FigmaIdle

\* const detection = detectTokenFormat(data, file): a TypeError ends the run
DetectTokenFormat ==
  /\ parser = "universal"
  /\ pc = "detect"
  /\ detection' = detectTokenFormat(document, filename)
  /\ pc' = IF detection' = Thrown THEN "failed" ELSE "parse"
  /\ UNCHANGED <<parser, config, files, artifacts, document, filename, parsedTokens,
                 universalVars, legacyVars, classifyVars, figmaVars>>

\* the switch of the first pass: the tokens of the file
ParseFile ==
  /\ parser = "universal"
  /\ pc = "parse"
  /\ parsedTokens' = ParseWith(detection, document)
  /\ pc' = "parsed"
  /\ UNCHANGED <<parser, config, files, artifacts, document, filename, detection,
                 universalVars, legacyVars, classifyVars, figmaVars>>

NextDetect == DetectTokenFormat \/ ParseFile

SpecDetect == InitDetect /\ [][NextDetect]_vars

-----------------------------------------------------------------------------
(* Properties of format detection and of the shape parsers, checked under
   SpecDetect *)

Formats == {"w3c", "tokens-studio", "style-dictionary", "simple", "unknown"}

Detected == parser = "universal" /\ pc \in {"parse", "parsed", "failed"}

\* C18: for every document and filename detectTokenFormat returns one of the
\* five formats, it never throws, and a document of unknown format is parsed by
\* the Simple parser
C18_DetectionTotal ==
  /\ Detected => detection.format \in Formats /\ pc # "failed"
  /\ (parser = "universal" /\ pc = "parsed" /\ detection.format = "unknown") =>
       parsedTokens = SimpleFrom(Entries(document), <<>>, "unknown", 1)

\* the document holds a key $type or $value, or a string value that is a
\* brace-wrapped reference
RECURSIVE HasW3CMarker(_)
HasW3CMarker(v) ==
  \/ v.kind = "string" /\ IsReference(v.text)
  \/ v.kind = "object" /\ (HasKey(v, "$type") \/ HasKey(v, "$value"))
  \/ \E i \in 1..Len(v.members) : HasW3CMarker(v.members[i].value)

\* the first format, in the order of detection, whose test the document passes
FirstMatch(data) ==
  IF HasW3CMarker(data) THEN "w3c"
  ELSE IF hasTokensStudioFormat(data) THEN "tokens-studio"
  ELSE IF hasStyleDictionaryFormat(data) THEN "style-dictionary"
  ELSE IF hasSimpleFormat(data) THEN "simple"
  ELSE "unknown"

\* C19: a document that is a JSON object is detected as w3c exactly when it holds a $type or $value
\* key or a brace-wrapped reference string; a document without these markers
\* goes to the first of the later checks it passes: Tokens Studio, Style
\* Dictionary, simple
C19_DetectionOrder ==
  (Detected /\ document.kind = "object") =>
    /\ detection.format = "w3c" <=> HasW3CMarker(document)
    /\ detection.format = FirstMatch(document)

\* the paths of the nodes that carry the marker and have no ancestor carrying
\* it, among the entries from i on
RECURSIVE MarkedPathsFrom(_, _, _, _)
MarkedPathsOf(value, currentPath, marker) ==
  IF IsObject(value) /\ HasKey(value, marker) THEN <<currentPath>>
  ELSE IF IsObject(value) THEN MarkedPathsFrom(Entries(value), currentPath, marker, 1)
  ELSE <<>>

MarkedPathsFrom(entries, path, marker, i) ==
  IF i > Len(entries) THEN <<>>
  ELSE MarkedPathsOf(entries[i].value, Append(path, entries[i].key), marker)
         \o MarkedPathsFrom(entries, path, marker, i + 1)

\* the value marker the parser of a format looks for
ValueMarker(format) == IF format = "w3c" THEN "$value" ELSE "value"

\* C20: the W3C, Tokens Studio and Style Dictionary parsers emit one token for
\* every node that carries the value marker and has no ancestor carrying it,
\* and no other token
C20_OneTokenPerMarkedNode ==
  (/\ parser = "universal"
   /\ pc = "parsed"
   /\ detection.format \in {"w3c", "tokens-studio", "style-dictionary"}) =>
    [i \in 1..Len(parsedTokens) |-> parsedTokens[i].originalPath]
      = MarkedPathsFrom(Entries(document), <<>>, ValueMarker(detection.format), 1)

-----------------------------------------------------------------------------
(* Property of the names built by W3CParser.flattenTokens, checked under
   SpecOwnPath *)

\* C21: the reference target recorded for the expression that wraps a token's
\* path, joined by dots, in braces is the name given to the token at that path,
\* and the reference resolves to the value of that token
C21_OwnPathFound ==
  (parser = "universal" /\ pc \in {"resolve", "dedup"} /\ Len(allTokens) = 2) =>
    /\ allTokens[2].references = allTokens[1].name
    /\ pc = "dedup" => allTokens[2].value = allTokens[1].value

\* C22: when a file of the input directory is not JSON the run is fatal: it never
\* goes on to resolve, transform or finish, and no artifact is written
C22_MalformedIsFatal ==
  (\E i \in 1..Len(files) : JSONParseThrows(files[i])) =>
    /\ pc \in {"read", "failed"}
    /\ artifacts = {}

LastNamed(toks, name) ==
  LET idx == {i \in 1..Len(toks) : toks[i].name = name} IN
  toks[CHOOSE i \in idx : \A j \in idx : j <= i]

\* C23: the resolver runs only after every file was read, and a reference to a
\* token with a literal value resolves to that value whether the file of the
\* token comes before or after the file of the reference
C23_ResolveAfterAllFiles ==
  (parser = "universal" /\ runs > 0) =>
    /\ fileIdx = Len(files) + 1
    /\ \A i \in 1..Len(allTokens) :
         (/\ allTokens[i].references # Null
          /\ \E j \in 1..Len(allTokens) : allTokens[j].name = allTokens[i].references
          /\ LastNamed(allTokens, allTokens[i].references).references = Null)
         => allTokens[i].value = LastNamed(allTokens, allTokens[i].references).value

\* the reference is in the first file and its target in the second
C23_Witness ==
  /\ parser = "universal"
  /\ pc = "dedup"
  /\ files = << <<Node(<<"Text", "Body">>, "{Grey.900}", "color")>>,
               <<Node(<<"Grey", "900">>, "#111111", "color")>> >>
  /\ allTokens[1].value = "#111111"

\* C24: without tokens.config.js, or without its cssPrefix block, the run never
\* completes, no input file is read or parsed and no artifact is written
C24_ConfigRequired ==
  (config = NoConfigFile \/ ~HasCssPrefix(config)) =>
    /\ pc # "done"
    /\ fileIdx = 1
    /\ allTokens = <<>>
    /\ legacyRuns = 0
    /\ artifacts = {}

\* C25: a token whose chain reaches a literal in at most maxDepth hops holds
\* the literal and has no circular-reference warning; a token whose chain has
\* more than maxDepth hops, whatever lies beyond them, has exactly one warning,
\* the circular-reference one, and keeps the value it had
C25_DepthBoundary ==
  runs = 1 =>
    \A i \in 1..Len(allTokens) :
      LET p == Path(allTokens, i, maxDepth + 1) IN
      /\ (Len(p) >= 2 /\ Len(p) <= maxDepth + 1 /\ LiteralAt(allTokens, p, Len(p) - 1)) =>
           /\ allTokens[i].value = allTokens[p[Len(p)]].value
           /\ ~WarnedAs(warnings, "circular", i)
      /\ Len(p) = maxDepth + 2 =>
           /\ allTokens[i].value = allTokens[i].rawValue
           /\ \E w \in 1..Len(warnings) :
                /\ warnings[w] = CircularWarning(allTokens[i].name, i)
                /\ \A v \in 1..Len(warnings) : warnings[v].index = i => v = w

\* a chain of maxDepth + 1 hops to a literal: its first token was warned about
\* and kept its reference expression, its second token holds the literal
C25_Witness ==
  /\ runs = 1
  /\ Len(allTokens) = maxDepth + 2
  /\ LET p == Path(allTokens, 1, maxDepth + 1)
         q == Path(allTokens, 2, maxDepth + 1)
     IN /\ Len(p) = maxDepth + 2
        /\ LiteralAt(allTokens, p, maxDepth + 1)
        /\ WarnedAs(warnings, "circular", 1)
        /\ allTokens[1].value = allTokens[1].rawValue
        /\ Len(q) = maxDepth + 1
        /\ allTokens[2].value = allTokens[p[maxDepth + 2]].value
        /\ ~Warned(warnings, 2)

\* the candidate family names of a group: the bucket of its middle colour
GroupCandidates(colors) ==
  ColorNames(rgbToHsl(hexToRgb(colors[(Len(colors) \div 2) + 1].value).r,
                      hexToRgb(colors[(Len(colors) \div 2) + 1].value).g,
                      hexToRgb(colors[(Len(colors) \div 2) + 1].value).b))

\* every candidate of the group is the family of a primitive of Colors.json
AllCandidatesUsed(colors, known) ==
  /\ hexToRgb(colors[(Len(colors) \div 2) + 1].value) # NoRgb
  /\ \A c \in 1..3 :
       \E k \in 1..Len(known) : FirstSegment(known[k].key) = GroupCandidates(colors)[c]

\* the groups that get a palette although every candidate name is taken
Exhausted(groups, known) ==
  {g \in SynthesizedGroups(groups, known) : AllCandidatesUsed(groups[g].value, known)}

\* the last exhausted group of a family F holds F-00, F-01, ...
FamilyReused(groups, known) ==
  \A exhausted \in {Exhausted(groups, known)} : \A g \in exhausted :
    \A F \in {GroupCandidates(groups[g].value)[1]} :
      (\A h \in exhausted : h > g => GroupCandidates(groups[h].value)[1] # F)
      => \A sorted \in {sortByLightness(groups[g].value)} :
           \A k \in 0..(Len(sorted) - 1) : \A name \in {ScaleName(F, k)} :
             /\ ObjGet(primitives, name) = sorted[k + 1].value
             /\ ObjGet(mappings, sorted[k + 1].value) = name
             /\ Cardinality({i \in 1..Len(primitives) : primitives[i].key = name}) = 1

ConfidenceRank(level) == CASE level = "low" -> 1 [] level = "medium" -> 2 [] level = "high" -> 3

\* the leaf is one of the bullet points of the report
ListedInReport(node) ==
  \E f \in artifacts :
    /\ f.path = config.semanticSuggestions.outputFile
    /\ \E e \in 1..Len(f.entries) :
         /\ f.entries[e].name = ToLowerCase(Join(node.path, "-"))
         /\ f.entries[e].value = node.value

\* C27: the report lists a semantic candidate if and only if its confidence is
\* at or above the configured threshold in the order low < medium < high
C27_ThresholdFilter ==
  (parser = "figma" /\ pc = "done" /\ "semanticSuggestions" \in DOMAIN config
     /\ config.semanticSuggestions.enabled) =>
    \A i \in 1..Len(colorsData) :
      LET confidence == analyzeSemanticCandidate(
                          ToLowerCase(Join(colorsData[i].path, "-")), colorsData[i].value)
      IN confidence # Null =>
           (ListedInReport(colorsData[i])
              <=> ConfidenceRank(confidence)
                    >= ConfidenceRank(config.semanticSuggestions.confidenceThreshold))

\* the entries of the stylesheet written below dir
StylesheetOf(dir) ==
  IF \E f \in artifacts : f.path = dir \o "/colors/colors.css"
  THEN (CHOOSE f \in artifacts : f.path = dir \o "/colors/colors.css").entries
  ELSE <<>>

\* C28: every primitive name an emitted semantic colour points at is a key of
\* the primitive colour map of the run, and every custom property the semantic
\* stylesheet refers to is defined by the primitive stylesheet
C28_ReferencesDefined ==
  (parser = "figma" /\ pc = "done") =>
    /\ \A g \in 1..Len(semanticColors) :
         \A i \in 1..Len(semanticColors[g].value) :
           \E k \in 1..Len(primitives) : primitives[k].key = semanticColors[g].value[i].value
    /\ \A e \in 1..Len(StylesheetOf(config.semanticDir)) :
         \E d \in 1..Len(StylesheetOf(config.outputDir)) :
           StylesheetOf(config.semanticDir)[e].value
             = "var(" \o StylesheetOf(config.outputDir)[d].name \o ")"

\* a semantic colour that came from a reference and one that came from a
\* synthesized palette were emitted, next to a reference that was left out
C28_Witness ==
  /\ parser = "figma"
  /\ pc = "done"
  /\ \E i, j, m \in 1..Len(colorsData) :
       /\ IsBraced(colorsData[i].value)
       /\ ObjGet(GroupOutput(colorsData[i].path[1]), EmittedKey(colorsData[i])) # Null
       /\ Synthesizable(colorsData[j])
       /\ ObjIndex(KnownPrimitives, ObjGet(mappings, colorsData[j].value)) = 0
       /\ ObjGet(GroupOutput(colorsData[j].path[1]), EmittedKey(colorsData[j]))
            = ObjGet(mappings, colorsData[j].value)
       /\ IsBraced(colorsData[m].value)
       /\ InSeq(colorsData[m].path[1], SemanticColorGroups)
       /\ ObjGet(GroupOutput(colorsData[m].path[1]), EmittedKey(colorsData[m])) = Null

\* the list with the elements at positions i and j exchanged
Swapped(seq, i, j) == [seq EXCEPT ![i] = seq[j], ![j] = seq[i]]

\* the orderings a list is compared with: every exchange of two elements, and
\* the list read backwards
Reorderings(seq) ==
  {Swapped(seq, i, j) : i, j \in 1..Len(seq)} \cup {Reverse(seq)}

UniqueNames(toks) == \A i, j \in 1..Len(toks) : toks[i].name = toks[j].name => i = j

\* what a run leaves behind, whatever the order: the value of every name and
\* the warnings without their position
ValuesByName(toks) == {<<toks[i].name, toks[i].value>> : i \in 1..Len(toks)}

WarningSet(warns) == {<<warns[w].kind, warns[w].token, warns[w].ref>> : w \in 1..Len(warns)}

SameOutcome(toks, warns, other) ==
  /\ ValuesByName(other.toks) = ValuesByName(toks)
  /\ WarningSet(other.warns) = WarningSet(warns)

\* C29: the resolver run on another ordering of the same uniquely named tokens
\* gives every token the same value and emits the same set of warnings
C29_OrderIndependent ==
  (runs = 1 /\ UniqueNames(allTokens)) =>
    \A other \in Reorderings(Tokens(files[1])) :
      SameOutcome(allTokens, warnings, ResolveReferences(other))

\* three or more tokens, one of them resolved and one warned about
C29_Witness ==
  /\ runs = 1
  /\ UniqueNames(allTokens)
  /\ Len(allTokens) >= 3
  /\ warnings # <<>>
  /\ \E i \in 1..Len(allTokens) :
       /\ allTokens[i].value # allTokens[i].rawValue
       /\ \E j \in (i + 1)..Len(allTokens) : allTokens[j].name = allTokens[i].references

\* a primitive was found for the leaf: through its reference, or through the
\* reverse lookup of its hardcoded value
MappedToPrimitive(n) ==
  IF IsBraced(n.value) THEN figmaRefToPrimitiveName(n.value, primitives) # Null
  ELSE ObjGet(ValueToPrimitive(mappings, primitives, 1), n.value) # Null

\* the leaves of a top-level group for which a primitive was found
MappedLeaves(group) ==
  {i \in 1..Len(colorsData) :
     colorsData[i].path[1] = group /\ MappedToPrimitive(colorsData[i])}

\* C30: the mapped tokens of one top-level semantic group, whatever their
\* subgroup, are emitted under distinct keys, and the group has as many entries
\* as it has mapped tokens
C30_DistinctKeys ==
  (parser = "figma" /\ pc = "done") =>
    \A g \in 1..Len(semanticColors) :
      /\ \A i, j \in MappedLeaves(semanticColors[g].key) :
           i # j => EmittedKey(colorsData[i]) # EmittedKey(colorsData[j])
      /\ Len(semanticColors[g].value) = Cardinality(MappedLeaves(semanticColors[g].key))

====
